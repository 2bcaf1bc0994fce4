----------------------------- MODULE UndoJournal -----------------------------
(***************************************************************************)
(* The rollback journal of one plog file (storage/undo.go), as the plog    *)
(* (storage/plog.go) drives it.                                            *)
(*                                                                         *)
(* The file is a function from sectors to contents; a sector past the end  *)
(* of the file holds Absent.  Sector 0 is the superblock, which is also    *)
(* the journal's identity of the file.  Every operation of a plog runs     *)
(* under Plog.mu, so the steps below interleave only with failing system   *)
(* calls and with crashes; pc names the undoCheckpoint last passed.        *)
(*                                                                         *)
(* A crash keeps every sector that has not changed since the last          *)
(* successful fsync and may leave anything in the others.  Of the journal  *)
(* it keeps any directory version since the last successful directory      *)
(* sync.                                                                   *)
(***************************************************************************)
EXTENDS Naturals

CONSTANTS LastSector,   \* sectors are numbered 0 .. LastSector
          Contents,     \* what a sector can hold
          Absent,       \* a sector past the end of the file
          NoJournal,    \* no <plog>.undo in the directory
          Hidden,       \* what a caller sees of a file that is not open
          MaxFaults     \* bound: failing calls, closes and crashes together

ASSUME LastSectorAssumption == LastSector \in Nat \ {0}
ASSUME AbsentAssumption == Absent \notin Contents
ASSUME MaxFaultsAssumption == MaxFaults \in Nat

Sectors == 0 .. LastSector

Images == [Sectors -> Contents \cup {Absent}]

\* A file has no sector after its end.
Files == {f \in Images : \A s \in Sectors \ {0} : f[s] # Absent => f[s - 1] # Absent}

Starts == Sectors \ {0}

\* undoRecord: saved holds the original sectors from start on; identity is
\* sector 0; valid says that the digest at the end of the journal matches.
Journals == [start : Starts, identity : Contents \cup {Absent}, saved : Images, valid : BOOLEAN]

ASSUME NoJournalAssumption == NoJournal \notin Journals

VARIABLES file,         \* the plog file as the running system sees it
          dirty,        \* sectors changed since the last successful fsync
          journal,      \* <plog>.undo as the running system sees it
          exposed,      \* the versions of <plog>.undo a crash may leave
          temp,         \* <plog>.undo.tmp
          tempSynced,   \* its contents have been fsynced
          undoActive,   \* Plog.undoActive
          undoStart,    \* Plog.undoStart
          target,       \* the start argument of the saveUndo in progress
          pc,           \* the last checkpoint; "idle" between operations
          accept,       \* history: the contents a recovery may return
          faults        \* faults so far

vars == <<file, dirty, journal, exposed, temp, tempSynced, undoActive,
          undoStart, target, pc, accept, faults>>

handleVars == <<undoActive, undoStart>>
tempVars   == <<temp, tempSynced>>

SavePcs    == {"save-written", "save-synced", "save-renamed"}
CommitPcs  == {"commit-synced", "commit-removed"}
RestorePcs == {"restore-copied", "restore-truncated", "restore-synced",
               "restore-removed", "restore-durable"}

\* A Plog exists and its caller sees the file.
OpenPcs == {"idle"} \cup SavePcs \cup CommitPcs

Changed(new) == {s \in Sectors : new[s] # file[s]}

\* Restoring journal j over image f.
Overlay(f, j) ==
    IF j = NoJournal
    THEN f
    ELSE [s \in Sectors |-> IF s < j.start THEN f[s] ELSE j.saved[s]]

Prefix(f, n) == [s \in Sectors |-> IF s < n THEN f[s] ELSE Absent]

Suffix(f, n) == [s \in Sectors |-> IF s < n THEN Absent ELSE f[s]]

Fault == faults < MaxFaults /\ faults' = faults + 1

\* A plog just created: openPlogFile has stamped and synced the superblock.
Init ==
    /\ \E superblock \in Contents : file = [s \in Sectors |-> IF s = 0 THEN superblock ELSE Absent]
    /\ dirty = {}
    /\ journal = NoJournal
    /\ exposed = {NoJournal}
    /\ temp = NoJournal
    /\ tempSynced = FALSE
    /\ undoActive = FALSE
    /\ undoStart = 0
    /\ target = 1
    /\ pc = "closed"
    /\ accept = {file}
    /\ faults = 0

-----------------------------------------------------------------------------
(* openUndo, saveUndo and protectPrefixLocked.                             *)

\* protectPrefixLocked calls saveUndo unless the range is already covered.
NeedsSave(start) == ~(undoActive /\ start >= undoStart)

\* openUndo succeeded and the journal belongs to this file.
Usable(j) == j # NoJournal /\ j.valid /\ j.identity = file[0]

\* The journal already covers start: only the directory is synced again.
SaveReuse(start) ==
    /\ pc = "idle"
    /\ NeedsSave(start)
    /\ Usable(journal)
    /\ start >= journal.start
    /\ target' = start
    /\ pc' = "save-renamed"
    /\ UNCHANGED <<file, dirty, journal, exposed, tempVars, handleVars, accept, faults>>

\* Mutant: an extended journal saves what the file holds now.
BaselineFromFile(start) ==
    [start |-> start, identity |-> file[0], saved |-> Suffix(file, start), valid |-> TRUE]

\* The journal to write: the sectors from start on as they were before the
\* first change, taken from the old journal where it covers them.
Baseline(start) ==
    [start    |-> start,
     identity |-> file[0],
     saved    |-> Suffix(Overlay(file, journal), start),
     valid    |-> TRUE]

SaveWrite(start) ==
    /\ pc = "idle"
    /\ NeedsSave(start)
    /\ \/ journal = NoJournal /\ file[start - 1] # Absent
       \/ Usable(journal) /\ start < journal.start
    /\ temp' = Baseline(start)
    /\ tempSynced' = FALSE
    /\ target' = start
    /\ pc' = "save-written"
    /\ UNCHANGED <<file, dirty, journal, exposed, handleVars, accept, faults>>

SaveSync ==
    /\ pc = "save-written"
    /\ tempSynced' = TRUE
    /\ pc' = "save-synced"
    /\ UNCHANGED <<file, dirty, journal, exposed, temp, handleVars, target, accept, faults>>

\* Mutant: the rename does not wait for the fsync.
SaveRenameUnsynced ==
    /\ pc \in {"save-written", "save-synced"}
    /\ journal' = temp
    /\ exposed' = exposed \cup {temp} \cup (IF tempSynced THEN {} ELSE {[temp EXCEPT !.valid = FALSE]})
    /\ temp' = NoJournal
    /\ tempSynced' = FALSE
    /\ pc' = "save-renamed"
    /\ UNCHANGED <<file, dirty, handleVars, target, accept, faults>>

\* Renaming a temporary file whose bytes are not on disk would let a crash
\* leave a journal whose digest does not match.
SaveRename ==
    /\ pc = "save-synced"
    /\ journal' = temp
    /\ exposed' = exposed \cup {temp}
                    \cup (IF tempSynced THEN {} ELSE {[temp EXCEPT !.valid = FALSE]})
    /\ temp' = NoJournal
    /\ tempSynced' = FALSE
    /\ pc' = "save-renamed"
    /\ UNCHANGED <<file, dirty, handleVars, target, accept, faults>>

SaveSyncDirectory ==
    /\ pc = "save-renamed"
    /\ exposed' = {journal}
    /\ undoActive' = TRUE
    /\ undoStart' = target
    /\ pc' = "idle"
    /\ UNCHANGED <<file, dirty, journal, tempVars, target, accept, faults>>

\* A call inside saveUndo fails: the operation is refused, the temporary file
\* removed, and whatever reached the directory stays there.
SaveFails ==
    /\ pc \in SavePcs
    /\ Fault
    /\ temp' = NoJournal
    /\ tempSynced' = FALSE
    /\ pc' = "idle"
    /\ UNCHANGED <<file, dirty, journal, exposed, handleVars, target, accept>>

-----------------------------------------------------------------------------
(* Destructive steps of writeLocked, TruncateTo and Commit, each behind    *)
(* protectPrefixLocked.                                                    *)

\* Mutant: any active journal is taken to cover the write.
ProtectedAnywhere(s) == undoActive

Protected(s) == undoActive /\ s >= undoStart

WriteSector(s, v) ==
    /\ pc = "idle"
    /\ Protected(s)
    /\ file[s - 1] # Absent
    /\ file' = [file EXCEPT ![s] = v]
    /\ dirty' = dirty \cup Changed(file')
    /\ UNCHANGED <<journal, exposed, tempVars, handleVars, target, pc, accept, faults>>

Truncate(s) ==
    /\ pc = "idle"
    /\ Protected(s)
    /\ file' = Prefix(file, s)
    /\ dirty' = dirty \cup Changed(file')
    /\ UNCHANGED <<journal, exposed, tempVars, handleVars, target, pc, accept, faults>>

-----------------------------------------------------------------------------
(* commitUndo, and what Commit does with its result.                       *)

CommitSync ==
    /\ pc = "idle"
    /\ dirty' = {}
    /\ accept' = accept \cup {file}
    /\ pc' = "commit-synced"
    /\ UNCHANGED <<file, journal, exposed, tempVars, handleVars, target, faults>>

\* os.Remove, or its IsNotExist branch, which goes on to the directory sync.
CommitRemove ==
    /\ pc = "commit-synced"
    /\ journal' = NoJournal
    /\ exposed' = exposed \cup {NoJournal}
    /\ pc' = "commit-removed"
    /\ UNCHANGED <<file, dirty, tempVars, handleVars, target, accept, faults>>

CommitSyncDirectory ==
    /\ pc = "commit-removed"
    /\ exposed' = {journal}
    /\ accept' = {file}
    /\ undoActive' = FALSE
    /\ pc' = "idle"
    /\ UNCHANGED <<file, dirty, journal, tempVars, undoStart, target, faults>>

\* Any call of commitUndo fails: Commit returns the error and forgets that the
\* journal may still be there.
CommitFails ==
    /\ pc \in {"idle"} \cup CommitPcs
    /\ Fault
    /\ undoActive' = FALSE
    /\ pc' = "idle"
    /\ UNCHANGED <<file, dirty, journal, exposed, tempVars, undoStart, target, accept>>

-----------------------------------------------------------------------------
(* restoreUndo and discardUndoTemp, called by openPlogFile.                *)

\* No journal: only the interrupted unlink of an earlier one is completed.
OpenWithoutJournal ==
    /\ pc = "closed"
    /\ journal = NoJournal
    /\ pc' = "restore-removed"
    /\ UNCHANGED <<file, dirty, journal, exposed, tempVars, handleVars, target, accept, faults>>

\* The saved sectors written back, and nothing else: where saved is Absent the
\* file is left to the truncation.
CopiedBack(end) ==
    [s \in Sectors |-> IF s <= end /\ s >= journal.start /\ journal.saved[s] # Absent
                       THEN journal.saved[s] ELSE file[s]]

RestoreCopy ==
    /\ pc = "closed"
    /\ Usable(journal)
    /\ file' = CopiedBack(LastSector)
    /\ dirty' = dirty \cup Changed(file')
    /\ pc' = "restore-copied"
    /\ UNCHANGED <<journal, exposed, tempVars, handleVars, target, accept, faults>>

\* The copy fails after some of its sectors; the open fails.
RestoreCopyFails ==
    /\ pc = "closed"
    /\ Usable(journal)
    /\ Fault
    /\ \E end \in Sectors : file' = CopiedBack(end)
    /\ dirty' = dirty \cup Changed(file')
    /\ UNCHANGED <<journal, exposed, tempVars, handleVars, target, pc, accept>>

\* Truncate to the saved size: the sectors that did not exist go.
RestoreTruncate ==
    /\ pc = "restore-copied"
    /\ file' = [s \in Sectors |-> IF s >= journal.start /\ journal.saved[s] = Absent
                                  THEN Absent ELSE file[s]]
    /\ dirty' = dirty \cup Changed(file')
    /\ pc' = "restore-truncated"
    /\ UNCHANGED <<journal, exposed, tempVars, handleVars, target, accept, faults>>

RestoreSync ==
    /\ pc = "restore-truncated"
    /\ dirty' = {}
    /\ pc' = "restore-synced"
    /\ UNCHANGED <<file, journal, exposed, tempVars, handleVars, target, accept, faults>>

\* Mutant: the replayed journal is not removed, and the open fails over and over.
RestoreRemoveFails ==
    /\ pc = "restore-synced"
    /\ pc' = "closed"
    /\ UNCHANGED <<file, dirty, journal, exposed, tempVars, handleVars, target, accept, faults>>

RestoreRemove ==
    /\ pc = "restore-synced"
    /\ journal' = NoJournal
    /\ exposed' = exposed \cup {NoJournal}
    /\ pc' = "restore-removed"
    /\ UNCHANGED <<file, dirty, tempVars, handleVars, target, accept, faults>>

RestoreSyncDirectory ==
    /\ pc = "restore-removed"
    /\ exposed' = {journal}
    /\ pc' = "restore-durable"
    /\ UNCHANGED <<file, dirty, journal, tempVars, handleVars, target, accept, faults>>

\* discardUndoTemp; the open succeeds.
DiscardTemp ==
    /\ pc = "restore-durable"
    /\ temp' = NoJournal
    /\ tempSynced' = FALSE
    /\ accept' = {file}
    /\ pc' = "idle"
    /\ UNCHANGED <<file, dirty, journal, exposed, handleVars, target, faults>>

\* Mutant: the error of restoreUndo is dropped and the plog opens.
OpenIgnoresError ==
    /\ pc \in RestorePcs
    /\ Fault
    /\ pc' = "idle"
    /\ UNCHANGED <<file, dirty, journal, exposed, tempVars, handleVars, target, accept>>

\* A call of restoreUndo or discardUndoTemp fails: OpenPlog returns an error.
OpenFails ==
    /\ pc \in RestorePcs
    /\ Fault
    /\ pc' = "closed"
    /\ UNCHANGED <<file, dirty, journal, exposed, tempVars, handleVars, target, accept>>

-----------------------------------------------------------------------------
(* Close and power loss.                                                   *)

Close ==
    /\ pc = "idle"
    /\ Fault
    /\ undoActive' = FALSE
    /\ undoStart' = 0
    /\ pc' = "closed"
    /\ UNCHANGED <<file, dirty, journal, exposed, tempVars, target, accept>>

Crash ==
    /\ Fault
    /\ file' \in Files
    /\ \A s \in Sectors \ dirty : file'[s] = file[s]
    /\ dirty' = {}
    /\ journal' \in exposed
    /\ exposed' = {journal'}
    /\ temp' \in {temp, NoJournal}
    /\ tempSynced' = FALSE
    /\ undoActive' = FALSE
    /\ undoStart' = 0
    /\ pc' = "closed"
    /\ UNCHANGED <<target, accept>>

-----------------------------------------------------------------------------
Save    == (\E s \in Starts : SaveReuse(s) \/ SaveWrite(s))
           \/ SaveSync \/ SaveRename \/ SaveSyncDirectory \/ SaveFails
Mutate  == \E s \in Starts : Truncate(s) \/ \E v \in Contents : WriteSector(s, v)
Commit  == CommitSync \/ CommitRemove \/ CommitSyncDirectory \/ CommitFails
Restore == RestoreCopy \/ RestoreCopyFails \/ RestoreTruncate \/ RestoreSync \/ RestoreRemove
           \/ RestoreSyncDirectory \/ DiscardTemp \/ OpenWithoutJournal \/ OpenFails

Next == Save \/ Mutate \/ Commit \/ Restore \/ Close \/ Crash

Spec == Init /\ [][Next]_vars

\* A started operation goes on (it is one goroutine holding Plog.mu), and a
\* server that is down is restarted and opens its plogs again.
Progress ==
    \/ SaveSync \/ SaveRename \/ SaveSyncDirectory
    \/ CommitRemove \/ CommitSyncDirectory
    \/ OpenWithoutJournal \/ RestoreCopy \/ RestoreTruncate \/ RestoreSync
    \/ RestoreRemove \/ RestoreSyncDirectory \/ DiscardTemp

FairSpec == Spec /\ WF_vars(Progress)

-----------------------------------------------------------------------------
(* Properties.                                                             *)

\* Types of the file, the journal and the handle of storage/undo.go.
TypeOK ==
    /\ file \in Images
    /\ dirty \subseteq Sectors
    /\ journal \in Journals \cup {NoJournal}
    /\ exposed \subseteq Journals \cup {NoJournal}
    /\ temp \in Journals \cup {NoJournal}
    /\ tempSynced \in BOOLEAN
    /\ undoActive \in BOOLEAN
    /\ undoStart \in Sectors
    /\ target \in Starts
    /\ pc \in OpenPcs \cup RestorePcs \cup {"closed"}
    /\ accept \subseteq Images
    /\ faults \in 0 .. MaxFaults

CrashImages == {f \in Files : \A s \in Sectors \ dirty : f[s] = file[s]}

\* Whenever the power fails, restoring whichever journal survived over whatever
\* the unsynced sectors hold gives contents that a Commit acknowledged, or that
\* a Commit still running has synced: saveUndo before every destructive write,
\* commitUndo's fsync before its unlink, the directory sync before its success.
PowerLossSafe == \A j \in exposed : \A f \in CrashImages : Overlay(f, j) \in accept

\* No crash leaves a journal that restoreUndo would refuse (a digest that does
\* not match, another file's identity): the plog can always be opened again.
NeverStranded == 0 \notin dirty /\ \A j \in exposed : j = NoJournal \/ Usable(j)

Opened == pc \in OpenPcs

View == IF Opened THEN file ELSE Hidden

Contract == INSTANCE CommitContract WITH open <- Opened, view <- View

\* The journal implements the contract of OpenPlog and Commit: an open shows
\* acknowledged contents only, and Commit reports success only for contents
\* that every later open will show.
ImplementsContract == Contract!ContractSpec

\* An operation in progress ends and a closed plog is opened again, whatever
\* failed or was lost on the way (retries of saveUndo, restoreUndo, commitUndo).
EventuallyIdle == (pc # "idle") ~> (pc = "idle")

-----------------------------------------------------------------------------
(* The inductive invariant behind PowerLossSafe.                           *)

\* NoJournal protects nothing: it behaves as a journal that starts past the end.
StartOf(j) == IF j = NoJournal THEN LastSector + 1 ELSE j.start

\* A crash that leaves journal j can be recovered from.
Good(j) ==
    /\ j # NoJournal => Usable(j)
    /\ Overlay(file, j) \in accept
    /\ \A s \in dirty : s >= StartOf(j)

\* Replaying journal j rewrites no sector that journal k takes from the file.
Agrees(j, k) ==
    \A s \in Sectors : StartOf(j) <= s /\ s < StartOf(k) => j.saved[s] = file[s]

ExposedInv == \A k \in exposed : Good(k) /\ Agrees(journal, k)

TempInv ==
    pc \in {"save-written", "save-synced"} =>
        /\ temp # NoJournal
        /\ temp.start = target
        /\ Good(temp)
        /\ \A k \in exposed : Agrees(temp, k)

HandleInv ==
    /\ undoActive => Opened
    /\ undoActive /\ pc \in {"save-written", "save-synced"} => target < undoStart
    /\ undoActive /\ pc # "commit-removed" => \A k \in exposed : StartOf(k) <= undoStart

PcInv ==
    /\ pc = "save-synced" => tempSynced
    /\ pc = "save-renamed" => journal # NoJournal /\ journal.start <= target
    /\ pc \in CommitPcs => dirty = {} /\ file \in accept
    /\ pc \in {"commit-removed", "restore-removed", "restore-durable"} => journal = NoJournal
    /\ pc = "restore-durable" => exposed = {NoJournal}
    /\ pc \in {"restore-copied", "restore-truncated", "restore-synced"} => journal # NoJournal
    /\ pc = "restore-copied" =>
          \A s \in Sectors : s >= journal.start /\ journal.saved[s] # Absent
                             => file[s] = journal.saved[s]
    /\ pc \in {"restore-truncated", "restore-synced"} =>
          \A s \in Sectors : s >= journal.start => file[s] = journal.saved[s]
    /\ pc = "restore-synced" => dirty = {}

\* PowerLossSafe and NeverStranded with what each checkpoint has established.
IInv ==
    /\ TypeOK
    /\ journal \in exposed
    /\ ExposedInv
    /\ TempInv
    /\ HandleInv
    /\ PcInv
=============================================================================
