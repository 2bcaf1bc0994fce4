------------------------- MODULE UndoJournalProofs -------------------------
(***************************************************************************)
(* The journal protocol is safe for every number of sectors, every set of  *)
(* sector contents and every number of faults.                             *)
(***************************************************************************)
EXTENDS UndoJournal, TLAPS

USE LastSectorAssumption, AbsentAssumption, NoJournalAssumption, MaxFaultsAssumption

\* Restoring a journal over a file gives a file again.
LEMMA OverlayType ==
    ASSUME NEW f \in Images, NEW j \in Journals \cup {NoJournal}
    PROVE  Overlay(f, j) \in Images
  BY DEF Overlay, Images, Journals

\* Every step of a saveUndo, commitUndo, restoreUndo or crash keeps the types.
LEMMA TypeStep == TypeOK /\ journal \in exposed /\ TempInv /\ [Next]_vars => TypeOK'
<1> SUFFICES ASSUME TypeOK, journal \in exposed, TempInv, [Next]_vars
             PROVE  TypeOK'
  OBVIOUS
<1> USE DEF TypeOK
<1>1. ASSUME NEW s \in Starts, SaveReuse(s) PROVE TypeOK'
  BY <1>1 DEF SaveReuse, OpenPcs, SavePcs, tempVars, handleVars
<1>2. ASSUME NEW s \in Starts, SaveWrite(s) PROVE TypeOK'
  <2>1. Overlay(file, journal) \in Images
    BY OverlayType
  <2>2. Suffix(Overlay(file, journal), s) \in Images
    BY <2>1 DEF Suffix, Images
  <2>3. Baseline(s) \in Journals
    BY <2>2 DEF Baseline, Journals, Images, Sectors
  <2> QED
    BY <1>2, <2>3 DEF SaveWrite, OpenPcs, SavePcs, handleVars
<1>3. CASE SaveSync
  BY <1>3 DEF SaveSync, OpenPcs, SavePcs, handleVars
<1>4. CASE SaveRename
  <2>1. temp \in Journals /\ temp.valid \in BOOLEAN
    BY <1>4 DEF SaveRename, TempInv, Journals
  <2>2. [temp EXCEPT !.valid = FALSE] \in Journals
    BY <2>1 DEF Journals
  <2> QED
    BY <1>4, <2>1, <2>2 DEF SaveRename, OpenPcs, SavePcs, handleVars
<1>5. CASE SaveSyncDirectory
  BY <1>5 DEF SaveSyncDirectory, OpenPcs, SavePcs, tempVars, Starts
<1>6. CASE SaveFails
  <2>1. faults' \in 0 .. MaxFaults
    BY <1>6 DEF SaveFails, Fault
  <2> QED
    BY <1>6, <2>1 DEF SaveFails, OpenPcs, handleVars
<1>7. ASSUME NEW s \in Starts, Truncate(s) PROVE TypeOK'
  <2>1. file' \in Images
    BY <1>7 DEF Truncate, Prefix, Images
  <2> QED
    BY <1>7, <2>1 DEF Truncate, Changed, tempVars, handleVars
<1>8. ASSUME NEW s \in Starts, NEW v \in Contents, WriteSector(s, v) PROVE TypeOK'
  <2>1. file' \in Images
    BY <1>8 DEF WriteSector, Images
  <2> QED
    BY <1>8, <2>1 DEF WriteSector, Changed, tempVars, handleVars
<1>9. CASE CommitSync
  BY <1>9 DEF CommitSync, OpenPcs, CommitPcs, tempVars, handleVars
<1>10. CASE CommitRemove
  BY <1>10 DEF CommitRemove, OpenPcs, CommitPcs, tempVars, handleVars
<1>11. CASE CommitSyncDirectory
  BY <1>11 DEF CommitSyncDirectory, OpenPcs, tempVars
<1>12. CASE CommitFails
  <2>1. faults' \in 0 .. MaxFaults
    BY <1>12 DEF CommitFails, Fault
  <2> QED
    BY <1>12, <2>1 DEF CommitFails, OpenPcs, tempVars
<1>13. CASE OpenWithoutJournal
  BY <1>13 DEF OpenWithoutJournal, RestorePcs, tempVars, handleVars
<1>14. CASE RestoreCopy
  <2>1. journal \in Journals /\ LastSector \in Sectors
    BY <1>14 DEF RestoreCopy, Usable, Sectors
  <2>2. file' \in Images
    BY <1>14, <2>1 DEF RestoreCopy, CopiedBack, Images, Journals
  <2> QED
    BY <1>14, <2>2 DEF RestoreCopy, Changed, RestorePcs, tempVars, handleVars
<1>15. CASE RestoreCopyFails
  <2>1. journal \in Journals
    BY <1>15 DEF RestoreCopyFails, Usable
  <2>2. PICK end \in Sectors : file' = CopiedBack(end)
    BY <1>15 DEF RestoreCopyFails
  <2>3. file' \in Images
    BY <2>1, <2>2 DEF CopiedBack, Images, Journals
  <2> QED
    BY <1>15, <2>3 DEF RestoreCopyFails, Fault, Changed, tempVars, handleVars
<1>16. CASE RestoreTruncate
  <2>1. file' \in Images
    BY <1>16 DEF RestoreTruncate, Images
  <2> QED
    BY <1>16, <2>1 DEF RestoreTruncate, Changed, RestorePcs, tempVars, handleVars
<1>17. CASE RestoreSync
  BY <1>17 DEF RestoreSync, RestorePcs, tempVars, handleVars
<1>18. CASE RestoreRemove
  BY <1>18 DEF RestoreRemove, RestorePcs, tempVars, handleVars
<1>19. CASE RestoreSyncDirectory
  BY <1>19 DEF RestoreSyncDirectory, RestorePcs, tempVars, handleVars
<1>20. CASE DiscardTemp
  BY <1>20 DEF DiscardTemp, OpenPcs, handleVars
<1>21. CASE OpenFails
  <2>1. faults' \in 0 .. MaxFaults
    BY <1>21 DEF OpenFails, Fault
  <2> QED
    BY <1>21, <2>1 DEF OpenFails, tempVars, handleVars
<1>22. CASE Close
  <2>1. faults' \in 0 .. MaxFaults
    BY <1>22 DEF Close, Fault
  <2>2. 0 \in Sectors
    BY DEF Sectors
  <2> QED
    BY <1>22, <2>1, <2>2 DEF Close, tempVars
<1>23. CASE Crash
  <2>1. faults' \in 0 .. MaxFaults
    BY <1>23 DEF Crash, Fault
  <2>2. 0 \in Sectors
    BY DEF Sectors
  <2>3. file' \in Images
    BY <1>23 DEF Crash, Files
  <2> QED
    BY <1>23, <2>1, <2>2, <2>3 DEF Crash
<1>24. CASE UNCHANGED vars
  BY <1>24 DEF vars
<1> QED
  BY <1>1, <1>2, <1>3, <1>4, <1>5, <1>6, <1>7, <1>8, <1>9, <1>10, <1>11, <1>12,
     <1>13, <1>14, <1>15, <1>16, <1>17, <1>18, <1>19, <1>20, <1>21, <1>22, <1>23,
     <1>24
  DEF Next, Save, Mutate, Commit, Restore

\* The invariant holds of a plog just created.
LEMMA InitInv == Init => IInv
<1> SUFFICES ASSUME Init PROVE IInv
  OBVIOUS
<1>1. PICK superblock \in Contents :
          file = [s \in Sectors |-> IF s = 0 THEN superblock ELSE Absent]
  BY DEF Init
<1>2. file \in Images /\ 0 \in Sectors /\ 1 \in Starts /\ 0 \in 0 .. MaxFaults
  BY <1>1 DEF Images, Sectors, Starts
<1>3. TypeOK
  BY <1>2 DEF Init, TypeOK
<1>4. ExposedInv
  <2>1. Good(NoJournal)
    BY DEF Init, Good, Overlay
  <2>2. Agrees(NoJournal, NoJournal)
    BY DEF Agrees, StartOf, Sectors
  <2> QED
    BY <2>1, <2>2 DEF Init, ExposedInv
<1>5. TempInv /\ HandleInv /\ PcInv
  BY DEF Init, TempInv, HandleInv, PcInv, CommitPcs
<1> QED
  BY <1>3, <1>4, <1>5 DEF Init, IInv

\* A change confined to sectors that journal k protects leaves k good.
LEMMA ProtectedChange ==
    ASSUME TypeOK, TypeOK', NEW k \in Journals \cup {NoJournal}, Good(k),
           accept' = accept, dirty' = dirty \cup Changed(file'),
           \A s \in Sectors : s < StartOf(k) => file'[s] = file[s]
    PROVE  Good(k)'
<1>1. k # NoJournal => file'[0] = file[0]
  BY DEF Journals, Starts, Sectors, StartOf
<1>2. k # NoJournal => Usable(k)'
  BY <1>1 DEF Good, Usable
<1>3. Overlay(file', k) = Overlay(file, k)
  <2>1. CASE k = NoJournal
    <3>1. \A s \in Sectors : file'[s] = file[s]
      BY <2>1 DEF StartOf, Sectors
    <3> QED
      BY <2>1, <3>1 DEF Overlay, TypeOK, Images
  <2>2. CASE k # NoJournal
    BY <2>2 DEF Overlay, StartOf
  <2> QED
    BY <2>1, <2>2
<1>4. \A s \in dirty' : s >= StartOf(k)
  <2> SUFFICES ASSUME NEW s \in Changed(file') PROVE s >= StartOf(k)
    BY DEF Good
  <2>1. s \in Sectors /\ file'[s] # file[s]
    BY DEF Changed
  <2>2. StartOf(k) \in Nat /\ s \in Nat
    BY <2>1 DEF StartOf, Journals, Starts, Sectors
  <2> QED
    BY <2>1, <2>2
<1> QED
  BY <1>2, <1>3, <1>4 DEF Good

\* A step that leaves the file, the journals and accept alone.
LEMMA QuietStep ==
    ASSUME ExposedInv, UNCHANGED <<file, dirty, journal, exposed, accept>>
    PROVE  ExposedInv'
  BY DEF ExposedInv, Good, Agrees, Overlay, Usable, StartOf

\* Each step keeps what ties the journals a crash may expose to the file.
LEMMA ExposedStep == IInv /\ [Next]_vars => (journal \in exposed /\ ExposedInv)'
<1> SUFFICES ASSUME IInv, [Next]_vars PROVE (journal \in exposed /\ ExposedInv)'
  OBVIOUS
<1>0. TypeOK /\ TypeOK'
  BY TypeStep DEF IInv
<1>a. journal \in exposed /\ \A k \in exposed : k \in Journals \cup {NoJournal} /\ Good(k) /\ Agrees(journal, k)
  BY <1>0 DEF IInv, ExposedInv, TypeOK
<1>q. ASSUME UNCHANGED <<file, dirty, journal, exposed, accept>>
      PROVE  (journal \in exposed /\ ExposedInv)'
  BY <1>q, QuietStep DEF IInv
<1>1. ASSUME NEW s \in Starts, SaveReuse(s) \/ SaveWrite(s)
      PROVE  (journal \in exposed /\ ExposedInv)'
  BY <1>1, <1>q DEF SaveReuse, SaveWrite
<1>3. CASE SaveSync \/ SaveFails
  BY <1>3, <1>q DEF SaveSync, SaveFails
<1>4. CASE SaveRename
  <2>1. exposed' = exposed \cup {temp} /\ journal' = temp /\ temp # NoJournal
    BY <1>4 DEF SaveRename, IInv, PcInv, TempInv
  <2>2. Good(temp) /\ \A k \in exposed : Agrees(temp, k)
    BY <1>4 DEF SaveRename, IInv, TempInv
  <2>3. Agrees(temp, temp)
    BY <1>0, <2>1 DEF Agrees, StartOf, TypeOK, Journals, Starts, Sectors
  <2>4. \A k : Good(k)' <=> Good(k)
    BY <1>4 DEF SaveRename, Good, Overlay, Usable, StartOf
  <2>5. ASSUME NEW k \in exposed' PROVE (Good(k) /\ Agrees(journal, k))'
    <3>1. Good(k)'
      BY <1>a, <2>1, <2>2, <2>4
    <3>2. Agrees(temp, k)
      BY <2>1, <2>2, <2>3
    <3>3. Agrees(journal, k)'
      BY <1>4, <2>1, <3>2 DEF SaveRename, Agrees, StartOf
    <3> QED
      BY <3>1, <3>3
  <2> QED
    BY <2>1, <2>5 DEF ExposedInv
<1>5. CASE SaveSyncDirectory
  BY <1>5, <1>a DEF SaveSyncDirectory, ExposedInv, Good, Agrees, Overlay, Usable, StartOf
<1>7. ASSUME NEW s \in Starts, Truncate(s) \/ \E v \in Contents : WriteSector(s, v)
      PROVE  (journal \in exposed /\ ExposedInv)'
  <2>1. /\ undoActive /\ s >= undoStart /\ pc = "idle"
        /\ UNCHANGED <<journal, exposed, accept>>
        /\ dirty' = dirty \cup Changed(file')
    BY <1>7 DEF Truncate, WriteSector, Protected
  <2>2. \A r \in Sectors : r < s => file'[r] = file[r]
    BY <1>7, <1>0 DEF Truncate, WriteSector, Prefix, TypeOK, Images, Starts, Sectors
  <2>3. \A k \in exposed : StartOf(k) <= s
    <3> SUFFICES ASSUME NEW k \in exposed PROVE StartOf(k) <= s
      OBVIOUS
    <3>1. StartOf(k) <= undoStart
      BY <2>1 DEF IInv, HandleInv
    <3>2. StartOf(k) \in Nat
      BY <1>a DEF StartOf, Journals, Starts, Sectors
    <3> QED
      BY <2>1, <3>1, <3>2, <1>0 DEF TypeOK, Starts, Sectors
  <2>4. ASSUME NEW k \in exposed PROVE (Good(k) /\ Agrees(journal, k))'
    <3>1. StartOf(k) \in Nat /\ s \in Nat
      BY <1>a DEF StartOf, Journals, Starts, Sectors
    <3>2. \A r \in Sectors : r < StartOf(k) => file'[r] = file[r]
      BY <2>2, <2>3, <3>1 DEF Sectors
    <3>3. Good(k)'
      BY <1>0, <1>a, <2>1, <3>2, ProtectedChange
    <3>4. Agrees(journal, k)'
      BY <1>a, <2>1, <3>2 DEF Agrees, StartOf
    <3> QED
      BY <3>3, <3>4
  <2> QED
    BY <1>a, <2>1, <2>4 DEF ExposedInv
<1>9. CASE CommitSync
  BY <1>9, <1>a DEF CommitSync, ExposedInv, Good, Agrees, Overlay, Usable, StartOf
<1>10. CASE CommitRemove \/ RestoreRemove
  <2>1. /\ UNCHANGED <<file, dirty, accept>>
        /\ journal' = NoJournal /\ exposed' = exposed \cup {NoJournal}
    BY <1>10 DEF CommitRemove, RestoreRemove
  <2>2. dirty = {} /\ file \in accept
    <3>1. CASE CommitRemove
      BY <3>1 DEF CommitRemove, IInv, PcInv, CommitPcs
    <3>2. CASE RestoreRemove
      <4>1. dirty = {} /\ journal # NoJournal
            /\ \A s \in Sectors : s >= journal.start => file[s] = journal.saved[s]
        BY <3>2 DEF RestoreRemove, IInv, PcInv
      <4>2. journal.start \in Nat /\ \A s \in Sectors : s \in Nat
        BY <4>1, <1>0 DEF TypeOK, Journals, Starts, Sectors
      <4>3. Overlay(file, journal) = file
        BY <4>1, <4>2, <1>0 DEF Overlay, TypeOK, Images
      <4> QED
        BY <4>1, <4>3, <1>a DEF Good
    <3> QED
      BY <1>10, <3>1, <3>2
  <2>3. Good(NoJournal)'
    BY <2>1, <2>2 DEF Good, Overlay
  <2>4. \A k \in exposed' : Agrees(NoJournal, k)'
    <3> SUFFICES ASSUME NEW k \in exposed' PROVE Agrees(NoJournal, k)'
      OBVIOUS
    <3>1. k \in Journals \cup {NoJournal}
      BY <2>1, <1>a
    <3>2. StartOf(k) \in Nat /\ StartOf(k) <= StartOf(NoJournal)
      BY <3>1 DEF StartOf, Journals, Starts, Sectors
    <3>3. \A s \in Sectors : ~(StartOf(NoJournal) <= s /\ s < StartOf(k))
      BY <3>2 DEF StartOf, Sectors
    <3> QED
      BY <3>3 DEF Agrees, StartOf
  <2>5. \A k \in exposed : Good(k)'
    BY <1>a, <2>1 DEF Good, Overlay, Usable, StartOf
  <2> QED
    BY <2>1, <2>3, <2>4, <2>5 DEF ExposedInv
<1>11. CASE CommitSyncDirectory
  <2>1. journal = NoJournal /\ dirty = {} /\ file \in accept
    BY <1>11 DEF CommitSyncDirectory, IInv, PcInv, CommitPcs
  <2>2. exposed' = {NoJournal} /\ journal' = NoJournal /\ accept' = {file'} /\ dirty' = {}
    BY <1>11, <2>1 DEF CommitSyncDirectory
  <2>3. Good(NoJournal)'
    BY <2>2 DEF Good, Overlay
  <2>4. Agrees(NoJournal, NoJournal)'
    BY DEF Agrees, StartOf, Sectors
  <2> QED
    BY <2>2, <2>3, <2>4 DEF ExposedInv
<1>12. CASE CommitFails \/ OpenFails \/ Close
  BY <1>12, <1>q DEF CommitFails, OpenFails, Close
<1>13. CASE OpenWithoutJournal \/ RestoreSyncDirectory
  BY <1>13, <1>a DEF OpenWithoutJournal, RestoreSyncDirectory, ExposedInv, Good, Agrees,
                     Overlay, Usable, StartOf
<1>14. CASE RestoreCopy \/ RestoreCopyFails \/ RestoreTruncate
  <2>1. /\ journal # NoJournal
        /\ UNCHANGED <<journal, exposed, accept>>
        /\ dirty' = dirty \cup Changed(file')
    BY <1>14 DEF RestoreCopy, RestoreCopyFails, RestoreTruncate, Usable, IInv, PcInv
  <2>2. \A s \in Sectors : file'[s] # file[s] => s >= journal.start /\ file'[s] = journal.saved[s]
    BY <1>14, <1>0 DEF RestoreCopy, RestoreCopyFails, RestoreTruncate, CopiedBack
  <2>3. journal \in Journals /\ journal.start \in Nat
    BY <1>0, <2>1 DEF TypeOK, Journals, Starts, Sectors
  <2>4. ASSUME NEW k \in exposed PROVE (Good(k) /\ Agrees(journal, k))'
    <3>1. StartOf(k) \in Nat /\ StartOf(journal) = journal.start
      BY <1>a, <2>1 DEF StartOf, Journals, Starts, Sectors
    <3>2. \A s \in Sectors : s < StartOf(k) => file'[s] = file[s]
      BY <1>a, <2>2, <2>3, <3>1 DEF Agrees, Sectors
    <3>3. Good(k)'
      BY <1>0, <1>a, <2>1, <3>2, ProtectedChange
    <3>4. Agrees(journal, k)'
      BY <1>a, <2>1, <3>2 DEF Agrees, StartOf
    <3> QED
      BY <3>3, <3>4
  <2> QED
    BY <1>a, <2>1, <2>4 DEF ExposedInv
<1>15. CASE RestoreSync
  BY <1>15, <1>a DEF RestoreSync, ExposedInv, Good, Agrees, Overlay, Usable, StartOf
<1>16. CASE DiscardTemp
  <2>1. exposed = {NoJournal} /\ journal = NoJournal
    BY <1>16 DEF DiscardTemp, IInv, PcInv
  <2>2. Good(NoJournal) /\ UNCHANGED <<file, dirty, journal, exposed>> /\ accept' = {file}
    BY <1>16, <1>a, <2>1 DEF DiscardTemp
  <2>3. Good(NoJournal)'
    BY <2>2 DEF Good, Overlay, StartOf
  <2>4. Agrees(NoJournal, NoJournal)'
    BY DEF Agrees, StartOf, Sectors
  <2> QED
    BY <2>1, <2>2, <2>3, <2>4 DEF ExposedInv
<1>17. CASE Crash
  <2>1. PICK j \in exposed : journal' = j /\ exposed' = {j}
    BY <1>17 DEF Crash
  <2>2. Good(j) /\ j \in Journals \cup {NoJournal}
    BY <1>a
  <2>3. \A s \in Sectors : s < StartOf(j) => file'[s] = file[s]
    <3>1. StartOf(j) \in Nat
      BY <2>2 DEF StartOf, Journals, Starts, Sectors
    <3>2. \A s \in Sectors : s < StartOf(j) => s \notin dirty
      BY <2>2, <3>1, <1>0 DEF Good, TypeOK, Sectors
    <3> QED
      BY <1>17, <3>2 DEF Crash
  <2>4. accept' = accept /\ dirty' = {}
    BY <1>17 DEF Crash
  <2>5. j # NoJournal => Usable(j)'
    BY <2>2, <2>3 DEF Good, Usable, StartOf, Journals, Starts, Sectors
  <2>6. Overlay(file', j) = Overlay(file, j)
    <3>1. CASE j = NoJournal
      <4>1. \A s \in Sectors : file'[s] = file[s]
        BY <3>1, <2>3 DEF StartOf, Sectors
      <4> QED
        BY <3>1, <4>1, <1>0 DEF Overlay, TypeOK, Images
    <3>2. CASE j # NoJournal
      BY <3>2, <2>3 DEF Overlay, StartOf
    <3> QED
      BY <3>1, <3>2
  <2>7. Good(j)'
    BY <2>2, <2>4, <2>5, <2>6 DEF Good
  <2>8. Agrees(j, j)'
    <3>1. StartOf(j) \in Nat
      BY <2>2 DEF StartOf, Journals, Starts, Sectors
    <3> QED
      BY <3>1 DEF Agrees, StartOf, Sectors
  <2> QED
    BY <2>1, <2>7, <2>8 DEF ExposedInv
<1>18. CASE UNCHANGED vars
  BY <1>18, <1>q DEF vars
<1> QED
  BY <1>1, <1>3, <1>4, <1>5, <1>7, <1>9, <1>10, <1>11, <1>12, <1>13, <1>14, <1>15,
     <1>16, <1>17, <1>18
  DEF Next, Save, Mutate, Commit, Restore

\* saveUndo keeps its promise about the temporary journal until the rename.
LEMMA TempStep == IInv /\ [Next]_vars => TempInv'
<1> SUFFICES ASSUME IInv, [Next]_vars, pc' \in {"save-written", "save-synced"}
             PROVE  /\ temp' # NoJournal
                    /\ temp'.start = target'
                    /\ Good(temp)'
                    /\ \A k \in exposed' : Agrees(temp, k)'
  BY DEF TempInv
<1>0. TypeOK /\ TypeOK'
  BY TypeStep DEF IInv
<1>1. ASSUME NEW s \in Starts, SaveWrite(s)
      PROVE  /\ temp' # NoJournal
             /\ temp'.start = target'
             /\ Good(temp)'
             /\ \A k \in exposed' : Agrees(temp, k)'
  <2>1. /\ temp' = Baseline(s) /\ target' = s
        /\ UNCHANGED <<file, dirty, journal, exposed, accept>>
    BY <1>1 DEF SaveWrite
  <2>2. /\ journal = NoJournal \/ (journal \in Journals /\ s < journal.start)
        /\ s \in Nat /\ s > 0
    BY <1>0, <1>1 DEF SaveWrite, TypeOK, Starts, Sectors
  <2>3. Good(journal) /\ \A k \in exposed : Agrees(journal, k)
    BY DEF IInv, ExposedInv
  <2>4. Baseline(s) \in Journals
    <3>1. Overlay(file, journal) \in Images
      BY <1>0, OverlayType DEF TypeOK
    <3>2. Suffix(Overlay(file, journal), s) \in Images
      BY <3>1 DEF Suffix, Images
    <3> QED
      BY <1>0, <3>2 DEF Baseline, Journals, Images, Sectors, TypeOK
  <2>5. temp' # NoJournal /\ temp'.start = s /\ temp'.valid /\ temp'.identity = file[0]
        /\ temp'.saved = Suffix(Overlay(file, journal), s)
    BY <2>1, <2>4 DEF Baseline
  <2>6. Overlay(file, temp') = Overlay(file, journal)
    <3>1. CASE journal = NoJournal
      BY <3>1, <2>2, <2>5, <1>0 DEF Overlay, Suffix, TypeOK, Images
    <3>2. CASE journal \in Journals /\ s < journal.start
      <4>1. journal # NoJournal /\ journal.start \in Nat /\ \A r \in Sectors : r \in Nat
        BY <3>2 DEF Journals, Starts, Sectors
      <4>2. ASSUME NEW r \in Sectors
            PROVE  (IF r < s THEN file[r] ELSE temp'.saved[r])
                     = IF r < journal.start THEN file[r] ELSE journal.saved[r]
        BY <2>2, <2>5, <3>2, <4>1 DEF Overlay, Suffix
      <4> QED
        BY <2>5, <4>1, <4>2 DEF Overlay
    <3> QED
      BY <2>2, <3>1, <3>2
  <2>7. \A r \in dirty : r >= s
    <3>1. CASE journal = NoJournal
      BY <1>0, <2>3, <3>1 DEF Good, StartOf, TypeOK, Sectors
    <3>2. CASE journal \in Journals /\ s < journal.start
      BY <1>0, <2>2, <2>3, <3>2 DEF Good, StartOf, TypeOK, Journals, Starts, Sectors
    <3> QED
      BY <2>2, <3>1, <3>2
  <2>8. Good(temp)'
    <3>1. Usable(temp)'
      BY <2>1, <2>5 DEF Usable
    <3>2. Overlay(file, temp)' \in accept'
      BY <2>1, <2>3, <2>6 DEF Good, Overlay
    <3>3. \A r \in dirty' : r >= StartOf(temp')
      BY <2>1, <2>5, <2>7 DEF StartOf
    <3> QED
      BY <3>1, <3>2, <3>3 DEF Good, StartOf
  <2>9. ASSUME NEW k \in exposed' PROVE Agrees(temp, k)'
    <3>1. k \in exposed /\ k \in Journals \cup {NoJournal}
      BY <2>1, <1>0 DEF TypeOK
    <3>2. StartOf(k) \in Nat /\ \A r \in Sectors : r \in Nat
      BY <3>1 DEF StartOf, Journals, Starts, Sectors
    <3>3. ASSUME NEW r \in Sectors, s <= r, r < StartOf(k) PROVE temp'.saved[r] = file[r]
      <4>1. temp'.saved[r] = Overlay(file, journal)[r]
        BY <2>2, <2>5, <3>2, <3>3 DEF Suffix
      <4>2. CASE journal = NoJournal
        BY <4>1, <4>2 DEF Overlay
      <4>3. CASE journal \in Journals /\ s < journal.start
        <5>1. journal # NoJournal /\ journal.start \in Nat
          BY <4>3 DEF Journals, Starts, Sectors
        <5>2. CASE r < journal.start
          BY <4>1, <5>1, <5>2 DEF Overlay
        <5>3. CASE ~(r < journal.start)
          <6>1. journal.saved[r] = file[r]
            BY <2>3, <3>1, <3>2, <3>3, <5>1, <5>3 DEF Agrees, StartOf
          <6> QED
            BY <4>1, <5>1, <5>3, <6>1 DEF Overlay
        <5> QED
          BY <5>2, <5>3
      <4> QED
        BY <2>2, <4>2, <4>3
    <3> QED
      BY <2>1, <2>5, <3>3 DEF Agrees, StartOf
  <2> QED
    BY <2>1, <2>5, <2>8, <2>9
<1>2. CASE SaveSync
  BY <1>2 DEF SaveSync, IInv, TempInv, Good, Agrees, Overlay, Usable, StartOf
<1>3. ASSUME NEW s \in Starts, Truncate(s) \/ \E v \in Contents : WriteSector(s, v)
      PROVE  FALSE
  BY <1>3 DEF Truncate, WriteSector
<1>4. CASE UNCHANGED vars
  BY <1>4 DEF vars, IInv, TempInv, Good, Agrees, Overlay, Usable, StartOf
<1>5. ASSUME NEW s \in Starts, SaveReuse(s) PROVE FALSE
  BY <1>5 DEF SaveReuse
<1>6. ASSUME SaveRename \/ SaveSyncDirectory \/ SaveFails \/ Commit \/ Restore \/ Close \/ Crash
      PROVE  FALSE
  <2>1. pc' \notin {"save-written", "save-synced"} \/ RestoreCopyFails
    BY <1>6 DEF SaveRename, SaveSyncDirectory, SaveFails, Commit, Restore, Close, Crash,
                CommitSync, CommitRemove, CommitSyncDirectory, CommitFails, OpenWithoutJournal,
                RestoreCopy, RestoreTruncate, RestoreSync, RestoreRemove,
                RestoreSyncDirectory, DiscardTemp, OpenFails
  <2> QED
    BY <2>1 DEF RestoreCopyFails
<1> QED
  BY <1>1, <1>2, <1>3, <1>4, <1>5, <1>6 DEF Next, Save, Mutate

\* undoActive never claims more protection than every exposed journal gives.
LEMMA HandleStep == IInv /\ [Next]_vars => HandleInv'
<1> SUFFICES ASSUME IInv, [Next]_vars, undoActive' PROVE HandleInv'
  BY DEF HandleInv
<1>0. TypeOK /\ TypeOK' /\ (journal \in exposed /\ ExposedInv)'
  BY TypeStep, ExposedStep DEF IInv
<1>h. HandleInv /\ TempInv /\ PcInv
  BY DEF IInv
<1>1. ASSUME NEW s \in Starts, SaveReuse(s) \/ SaveWrite(s) PROVE HandleInv'
  <2>1. /\ pc = "idle" /\ NeedsSave(s) /\ target' = s
        /\ UNCHANGED <<exposed, undoActive, undoStart>>
    BY <1>1 DEF SaveReuse, SaveWrite, handleVars
  <2>2. pc' \in SavePcs
    BY <1>1 DEF SaveReuse, SaveWrite, SavePcs
  <2>3. s < undoStart
    BY <1>0, <2>1 DEF NeedsSave, TypeOK, Starts, Sectors
  <2> QED
    BY <1>h, <2>1, <2>2, <2>3 DEF HandleInv, Opened, OpenPcs, SavePcs, StartOf
<1>2. CASE SaveSync \/ SaveFails
  BY <1>2, <1>h DEF SaveSync, SaveFails, HandleInv, Opened, OpenPcs, SavePcs, handleVars, StartOf
<1>3. CASE SaveRename
  <2>1. /\ exposed' = exposed \cup {temp} /\ temp # NoJournal /\ temp.start = target
        /\ undoActive /\ undoStart' = undoStart /\ target < undoStart /\ pc' = "save-renamed"
    BY <1>3, <1>h DEF SaveRename, HandleInv, TempInv, PcInv, handleVars
  <2>2. StartOf(temp) <= undoStart
    BY <1>0, <2>1 DEF StartOf, TypeOK, Starts, Sectors
  <2>3. \A k \in exposed : StartOf(k) <= undoStart
    BY <1>3, <1>h, <2>1 DEF HandleInv, SaveRename
  <2> QED
    BY <2>1, <2>2, <2>3 DEF HandleInv, Opened, OpenPcs, SavePcs, StartOf
<1>4. CASE SaveSyncDirectory
  BY <1>4, <1>h DEF SaveSyncDirectory, HandleInv, PcInv, Opened, OpenPcs, StartOf
<1>5. ASSUME NEW s \in Starts, Truncate(s) \/ \E v \in Contents : WriteSector(s, v)
      PROVE  HandleInv'
  BY <1>5, <1>h DEF Truncate, WriteSector, HandleInv, Opened, handleVars, StartOf
<1>6. CASE CommitSync \/ CommitRemove
  BY <1>6, <1>h DEF CommitSync, CommitRemove, HandleInv, Opened, OpenPcs, CommitPcs, handleVars,
                    StartOf
<1>7. CASE CommitSyncDirectory \/ CommitFails \/ Close \/ Crash
  BY <1>7 DEF CommitSyncDirectory, CommitFails, Close, Crash
<1>8. CASE Restore
  <2>1. pc \in RestorePcs \cup {"closed"} /\ undoActive' = undoActive
    BY <1>8 DEF Restore, RestoreCopy, RestoreCopyFails, RestoreTruncate, RestoreSync,
                RestoreRemove, RestoreSyncDirectory, DiscardTemp, OpenWithoutJournal,
                OpenFails, RestorePcs, handleVars
  <2>2. ~Opened
    BY <2>1 DEF Opened, OpenPcs, SavePcs, CommitPcs, RestorePcs
  <2> QED
    BY <1>h, <2>1, <2>2 DEF HandleInv
<1>9. CASE UNCHANGED vars
  BY <1>9, <1>h DEF vars, HandleInv, Opened, StartOf
<1> QED
  BY <1>1, <1>2, <1>3, <1>4, <1>5, <1>6, <1>7, <1>8, <1>9 DEF Next, Save, Mutate, Commit

\* What each checkpoint has established is true when it is reached.
LEMMA PcStep == IInv /\ [Next]_vars => PcInv'
<1> SUFFICES ASSUME IInv, [Next]_vars PROVE PcInv'
  OBVIOUS
<1>0. TypeOK /\ TypeOK'
  BY TypeStep DEF IInv
<1>h. journal \in exposed /\ ExposedInv /\ TempInv /\ PcInv
  BY DEF IInv
<1>1. ASSUME NEW s \in Starts, SaveReuse(s) PROVE PcInv'
  BY <1>0, <1>1 DEF SaveReuse, Usable, PcInv, CommitPcs, TypeOK, Journals, Starts, Sectors
<1>2. ASSUME NEW s \in Starts, SaveWrite(s) PROVE PcInv'
  BY <1>2 DEF SaveWrite, PcInv, CommitPcs
<1>3. CASE SaveSync
  BY <1>3 DEF SaveSync, PcInv, CommitPcs
<1>4. CASE SaveRename
  <2>1. journal' # NoJournal /\ journal'.start = target' /\ pc' = "save-renamed"
    BY <1>4, <1>h DEF SaveRename, TempInv
  <2> QED
    BY <1>0, <2>1 DEF PcInv, CommitPcs, TypeOK, Starts, Sectors
<1>5. CASE SaveSyncDirectory \/ SaveFails
  BY <1>5 DEF SaveSyncDirectory, SaveFails, PcInv, CommitPcs
<1>6. ASSUME NEW s \in Starts, Truncate(s) \/ \E v \in Contents : WriteSector(s, v)
      PROVE  PcInv'
  BY <1>6 DEF Truncate, WriteSector, PcInv, CommitPcs
<1>7. CASE CommitSync
  BY <1>7 DEF CommitSync, PcInv, CommitPcs
<1>8. CASE CommitRemove
  BY <1>8, <1>h DEF CommitRemove, PcInv, CommitPcs
<1>9. CASE CommitSyncDirectory \/ CommitFails \/ Close \/ Crash
  BY <1>9 DEF CommitSyncDirectory, CommitFails, Close, Crash, PcInv, CommitPcs
<1>10. CASE OpenWithoutJournal
  BY <1>10 DEF OpenWithoutJournal, PcInv, CommitPcs
<1>11. CASE RestoreCopy
  <2>1. journal' = journal /\ journal \in Journals /\ journal # NoJournal /\ pc' = "restore-copied"
    BY <1>0, <1>11 DEF RestoreCopy, Usable, TypeOK
  <2>2. \A s \in Sectors : s <= LastSector
    BY DEF Sectors
  <2>3. \A s \in Sectors : s >= journal.start /\ journal.saved[s] # Absent
                           => file'[s] = journal.saved[s]
    BY <1>11, <2>2 DEF RestoreCopy, CopiedBack
  <2> QED
    BY <2>1, <2>3 DEF PcInv, CommitPcs
<1>12. CASE RestoreCopyFails
  BY <1>12 DEF RestoreCopyFails, PcInv, CommitPcs
<1>13. CASE RestoreTruncate
  <2>1. journal' = journal /\ journal # NoJournal /\ pc' = "restore-truncated"
    BY <1>13, <1>h DEF RestoreTruncate, PcInv
  <2>2. \A s \in Sectors : s >= journal.start => file'[s] = journal.saved[s]
    BY <1>13, <1>h DEF RestoreTruncate, PcInv
  <2> QED
    BY <2>1, <2>2 DEF PcInv, CommitPcs
<1>14. CASE RestoreSync
  BY <1>14, <1>h DEF RestoreSync, PcInv, CommitPcs
<1>15. CASE RestoreRemove
  BY <1>15 DEF RestoreRemove, PcInv, CommitPcs
<1>16. CASE RestoreSyncDirectory
  BY <1>16, <1>h DEF RestoreSyncDirectory, PcInv, CommitPcs
<1>17. CASE DiscardTemp \/ OpenFails
  BY <1>17 DEF DiscardTemp, OpenFails, PcInv, CommitPcs
<1>18. CASE UNCHANGED vars
  BY <1>18, <1>h DEF vars, PcInv
<1> QED
  BY <1>1, <1>2, <1>3, <1>4, <1>5, <1>6, <1>7, <1>8, <1>9, <1>10, <1>11, <1>12, <1>13,
     <1>14, <1>15, <1>16, <1>17, <1>18
  DEF Next, Save, Mutate, Commit, Restore

\* IInv is an inductive invariant of the journal protocol (storage/undo.go).
THEOREM Invariance == Spec => []IInv
<1>1. IInv /\ [Next]_vars => IInv'
  BY TypeStep, ExposedStep, TempStep, HandleStep, PcStep DEF IInv
<1> QED
  BY InitInv, <1>1, PTL DEF Spec

\* Type correctness of the journal protocol.
THEOREM TypeCorrect == Spec => []TypeOK
<1>1. IInv => TypeOK
  BY DEF IInv
<1> QED
  BY Invariance, <1>1, PTL

\* No power loss, at any point of any saveUndo, write, commitUndo or
\* restoreUndo, costs contents that a Commit acknowledged.
THEOREM PowerLoss == Spec => []PowerLossSafe
<1>1. IInv => PowerLossSafe
  <2> SUFFICES ASSUME IInv, NEW j \in exposed, NEW f \in CrashImages
               PROVE  Overlay(f, j) \in accept
    BY DEF PowerLossSafe
  <2>1. TypeOK /\ Good(j) /\ j \in Journals \cup {NoJournal}
    BY DEF IInv, ExposedInv, TypeOK
  <2>2. StartOf(j) \in Nat /\ f \in Images
    BY <2>1 DEF StartOf, Journals, Starts, Sectors, CrashImages, Files
  <2>3. \A s \in Sectors : s < StartOf(j) => f[s] = file[s]
    BY <2>1, <2>2 DEF Good, CrashImages, TypeOK, Sectors
  <2>4. Overlay(f, j) = Overlay(file, j)
    <3>1. CASE j = NoJournal
      <4>1. \A s \in Sectors : f[s] = file[s]
        BY <2>3, <3>1 DEF StartOf, Sectors
      <4> QED
        BY <2>1, <2>2, <3>1, <4>1 DEF Overlay, TypeOK, Images
    <3>2. CASE j # NoJournal
      BY <2>3, <3>2 DEF Overlay, StartOf
    <3> QED
      BY <3>1, <3>2
  <2> QED
    BY <2>1, <2>4 DEF Good
<1> QED
  BY Invariance, <1>1, PTL

\* Every journal a crash may leave is accepted by restoreUndo.
THEOREM Openable == Spec => []NeverStranded
<1>1. IInv => NeverStranded
  <2> SUFFICES ASSUME IInv PROVE NeverStranded
    OBVIOUS
  <2>1. TypeOK /\ journal \in exposed /\ ExposedInv
    BY DEF IInv
  <2>2. StartOf(journal) \in Nat /\ StartOf(journal) > 0
    BY <2>1 DEF TypeOK, StartOf, Journals, Starts, Sectors
  <2>3. 0 \notin dirty
    BY <2>1, <2>2 DEF ExposedInv, Good
  <2> QED
    BY <2>1, <2>3 DEF ExposedInv, Good, NeverStranded
<1> QED
  BY Invariance, <1>1, PTL

\* The journal protocol implements the contract of OpenPlog and Commit: every
\* step is a step of CommitContract on what the caller can see, or invisible.
THEOREM Refinement == Spec => ImplementsContract
<1>1. Init => Contract!ContractInit
  <2> SUFFICES ASSUME Init PROVE Contract!ContractInit
    OBVIOUS
  <2>1. TypeOK
    BY InitInv DEF IInv
  <2>2. pc = "closed" /\ accept = {file} /\ file \in Images
    BY <2>1 DEF Init, TypeOK
  <2>3. Opened = FALSE
    BY <2>2 DEF Opened, OpenPcs, SavePcs, CommitPcs
  <2> QED
    BY <2>2, <2>3 DEF Contract!ContractInit, View
<1>2. ASSUME IInv, [Next]_vars PROVE [Contract!ContractNext]_(Contract!contractVars)
  <2>0. TypeOK /\ TypeOK' /\ ExposedInv /\ PcInv /\ journal \in exposed
    BY <1>2, TypeStep DEF IInv
  <2> USE DEF Opened, View, OpenPcs, SavePcs, CommitPcs, RestorePcs
  <2>s. ASSUME Opened' = Opened, View' = View, accept' = accept
        PROVE  [Contract!ContractNext]_(Contract!contractVars)
    BY <2>s DEF Contract!contractVars
  <2>1. ASSUME NEW s \in Starts, SaveReuse(s) \/ SaveWrite(s)
        PROVE  [Contract!ContractNext]_(Contract!contractVars)
    BY <2>1, <2>s DEF SaveReuse, SaveWrite
  <2>2. CASE SaveSync \/ SaveRename \/ SaveSyncDirectory \/ SaveFails
    BY <2>2, <2>s DEF SaveSync, SaveRename, SaveSyncDirectory, SaveFails
  <2>3. ASSUME NEW s \in Starts, Truncate(s) \/ \E v \in Contents : WriteSector(s, v)
        PROVE  [Contract!ContractNext]_(Contract!contractVars)
    <3>1. pc = "idle" /\ pc' = "idle" /\ accept' = accept
      BY <2>3 DEF Truncate, WriteSector
    <3>2. Contract!Edit
      BY <2>0, <3>1 DEF Contract!Edit, TypeOK
    <3> QED
      BY <3>2 DEF Contract!ContractNext
  <2>4. CASE CommitSync
    <3>1. Contract!Persist
      BY <2>4 DEF CommitSync, Contract!Persist
    <3> QED
      BY <3>1 DEF Contract!ContractNext
  <2>5. CASE CommitRemove \/ CommitFails
    BY <2>5, <2>s DEF CommitRemove, CommitFails
  <2>6. CASE CommitSyncDirectory
    <3>1. file \in accept
      BY <2>0, <2>6 DEF CommitSyncDirectory, PcInv
    <3>2. Contract!Acknowledge
      BY <2>6, <3>1 DEF CommitSyncDirectory, Contract!Acknowledge
    <3> QED
      BY <3>2 DEF Contract!ContractNext
  <2>7. CASE OpenWithoutJournal \/ RestoreCopy \/ RestoreCopyFails \/ RestoreTruncate
             \/ RestoreSync \/ RestoreRemove \/ RestoreSyncDirectory \/ OpenFails
    <3>1. ~Opened /\ ~Opened' /\ accept' = accept
      BY <2>7 DEF OpenWithoutJournal, RestoreCopy, RestoreCopyFails, RestoreTruncate,
                  RestoreSync, RestoreRemove, RestoreSyncDirectory, OpenFails
    <3> QED
      BY <3>1, <2>s
  <2>8. CASE DiscardTemp
    <3>1. file \in accept /\ file' = file
      BY <2>0, <2>8 DEF DiscardTemp, PcInv, ExposedInv, Good, Overlay
    <3>2. Contract!Recover
      BY <2>8, <3>1 DEF DiscardTemp, Contract!Recover
    <3> QED
      BY <3>2 DEF Contract!ContractNext
  <2>9. CASE Close \/ Crash
    <3>1. ~Opened' /\ accept' = accept
      BY <2>9 DEF Close, Crash
    <3>2. CASE Opened
      <4>1. Contract!Lose
        BY <3>1, <3>2 DEF Contract!Lose
      <4> QED
        BY <4>1 DEF Contract!ContractNext
    <3>3. CASE ~Opened
      BY <3>1, <3>3, <2>s
    <3> QED
      BY <3>2, <3>3
  <2>10. CASE UNCHANGED vars
    BY <2>10, <2>s DEF vars
  <2> QED
    BY <1>2, <2>1, <2>2, <2>3, <2>4, <2>5, <2>6, <2>7, <2>8, <2>9, <2>10
    DEF Next, Save, Mutate, Commit, Restore
<1> QED
  BY <1>1, <1>2, Invariance, PTL DEF Spec, ImplementsContract, Contract!ContractSpec
=============================================================================
