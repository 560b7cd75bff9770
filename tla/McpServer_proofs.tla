-------------------------- MODULE McpServer_proofs --------------------------
(***************************************************************************)
(* The state the MCP server keeps on disk.                                 *)
(*                                                                         *)
(* The audit log: a rotation interrupted anywhere is finished before the   *)
(* next append, and the log read through the journal implements AuditLog,  *)
(* for any number of generations, any budget and any sizes of entries.     *)
(*                                                                         *)
(* The wallet profiles: a wallet reported as persisted stays in the state  *)
(* file and a key comes to the wallet it was issued for, for any number of *)
(* profiles, wallets and overlapping calls.                                *)
(***************************************************************************)
EXTENDS AuditRotation, Profiles, TLAPS

----------------------------------------------------------------------------
(* The audit log.                                                          *)

\* What is on disk between any two file operations, hence after a crash.
DiskOK ==
    /\ maxFiles = 0 => journal = "absent"
    /\ journal \notin Phases => \A g \in Slots : stage[g] = Absent
    /\ journal = "staging" =>
          /\ \A g \in Slots : stage[g] = Absent \/ gen[g] = Absent
          /\ stage[0] # Absent \/ gen[0] # Absent
    /\ journal = "publishing" => gen[0] = Absent
    /\ \A g \in Slots : g > maxFiles => stage[g] = Absent

\* How far the operation in progress has come.
ProgressOK ==
    /\ pc = "stage" =>
          /\ journal = "staging" /\ n <= maxFiles
          /\ \A g \in Slots : g > n /\ g <= maxFiles => gen[g] = Absent
    /\ pc \in {"writeNext", "swap"} =>
          /\ journal = "staging"
          /\ \A g \in Slots : g <= maxFiles => gen[g] = Absent
    /\ pc = "swap" => next = "publishing"
    /\ pc = "publish" =>
          /\ journal = "publishing" /\ n < maxFiles
          /\ \A g \in Slots : g > n /\ g < maxFiles => stage[g] = Absent
    /\ pc = "drop" => journal = "publishing" /\ \A g \in Slots : g < maxFiles => stage[g] = Absent
    /\ pc = "unlog" => journal = "publishing" /\ \A g \in Slots : stage[g] = Absent
    /\ pc = "tidy" => journal = "absent" /\ gen[0] = Absent
    /\ pc \in {"fit", "append", "writeJournal"} => ready
    /\ pc = "writeJournal" => maxFiles > 0 /\ gen[0] # Absent

\* What the writer remembers of the live file.
WriterOK ==
    /\ pc # "idle" => ~disabled /\ entry \in EntrySizes /\ count < MaxEntries
    /\ pc \in {"idle", "fit", "append", "writeJournal"} /\ ready /\ ~disabled =>
          journal = "absent" /\ size = Stat(gen[0])
    /\ pc = "append" => ~Full(size, entry)

IInv == TypeOK /\ DiskOK /\ ProgressOK /\ WriterOK

LEMMA FileFacts ==
    /\ Absent \notin File /\ 0 \in Slots
    /\ \A f \in File : f # Absent /\ Stat(f) = f.bytes /\ f.bytes \in Nat \ {0} /\ Contents(f) = f
    /\ Stat(Absent) = 0 /\ Contents(Absent) = EmptyFile
BY AuditAssumption DEF File, Stat, Contents, Slots

LEMMA InitHolds == Init => IInv
<1> SUFFICES ASSUME Init PROVE IInv  OBVIOUS
<1> USE AuditAssumption DEF Init
<1>1. TypeOK
  <2>1. gen \in [Slots -> File \cup {Absent}] /\ stage \in [Slots -> File \cup {Absent}]
    OBVIOUS
  <2>2. maxFiles \in Slots /\ n \in Slots /\ size \in Nat /\ count \in 0 .. MaxEntries
        /\ entry \in EntrySizes \cup {0}
    BY FileFacts
  <2>3. ready \in BOOLEAN /\ disabled \in BOOLEAN /\ fault \in BOOLEAN  OBVIOUS
  <2> QED  BY <2>1, <2>2, <2>3 DEF TypeOK
<1>2. DiskOK  BY DEF DiskOK, Phases
<1>3. ProgressOK  BY DEF ProgressOK
<1>4. WriterOK  BY DEF WriterOK
<1> QED  BY <1>1, <1>2, <1>3, <1>4 DEF IInv

\* The log reads the same while the disk does.
LEMMA SameDisk ==
    ASSUME UNCHANGED <<gen, stage, journal, maxFiles>>
    PROVE  Files' = Files
BY DEF Files, View, Contents

\* A journal that names no phase, or only the first one, changes no name.
LEMMA SameNames ==
    ASSUME UNCHANGED <<gen, stage, maxFiles>>, journal # "publishing", journal' # "publishing"
    PROVE  Files' = Files
BY DEF Files, View, Contents

\* Moving one source aside keeps the disk in order and the log as it reads.
LEMMA StageStep == IInv /\ Stage => IInv' /\ Files' = Files
<1> SUFFICES ASSUME IInv, Stage PROVE IInv' /\ Files' = Files  OBVIOUS
<1> USE AuditAssumption
<1>1. TypeOK /\ DiskOK /\ ProgressOK /\ WriterOK  BY DEF IInv
<1>2. /\ pc = "stage" /\ journal = "staging" /\ n \in Slots /\ n <= maxFiles
      /\ \A g \in Slots : g > n /\ g <= maxFiles => gen[g] = Absent
  BY <1>1 DEF Stage, ProgressOK, TypeOK
<1>3. /\ gen' \in [Slots -> File \cup {Absent}] /\ stage' \in [Slots -> File \cup {Absent}]
      /\ \A g \in Slots \ {n} : gen'[g] = gen[g] /\ stage'[g] = stage[g]
      /\ gen'[n] = Absent
      /\ stage'[n] = IF stage[n] = Absent THEN gen[n] ELSE stage[n]
  <2>1. CASE stage[n] = Absent /\ gen[n] # Absent
    BY <1>1, <1>2, <2>1 DEF Stage, TypeOK
  <2>2. CASE ~(stage[n] = Absent /\ gen[n] # Absent)
    <3>1. gen' = gen /\ stage' = stage  BY <2>2 DEF Stage
    <3>2. stage[n] = Absent \/ gen[n] = Absent  BY <1>1, <1>2 DEF DiskOK
    <3> QED  BY <1>1, <1>2, <2>2, <3>1, <3>2 DEF TypeOK
  <2> QED  BY <2>1, <2>2
<1>4. /\ journal' = journal /\ maxFiles' = maxFiles /\ next' = next /\ size' = size
      /\ ready' = ready /\ disabled' = disabled /\ entry' = entry /\ count' = count
      /\ fault' = fault
  BY DEF Stage
<1>5. (n > 0 /\ n' = n - 1 /\ pc' = "stage") \/ (n = 0 /\ n' = 0 /\ pc' = "writeNext")
  BY <1>2 DEF Stage, Descend, Goto
<1>6. n' \in Slots  BY <1>2, <1>5 DEF Slots
<1>7. TypeOK'  BY <1>1, <1>3, <1>4, <1>5, <1>6 DEF TypeOK
<1>8. DiskOK'
  <2>1. \A g \in Slots : stage'[g] = Absent \/ gen'[g] = Absent
    BY <1>1, <1>2, <1>3 DEF DiskOK
  <2>2. stage'[0] # Absent \/ gen'[0] # Absent
    BY <1>1, <1>2, <1>3, FileFacts DEF DiskOK
  <2>3. \A g \in Slots : g > maxFiles => stage'[g] = Absent
    BY <1>1, <1>2, <1>3 DEF DiskOK, Slots, TypeOK
  <2> QED  BY <1>1, <1>2, <1>4, <2>1, <2>2, <2>3 DEF DiskOK, Phases
<1>9. ProgressOK'
  <2>1. CASE n > 0 /\ n' = n - 1 /\ pc' = "stage"
    <3>1. n' <= maxFiles  BY <1>1, <1>2, <2>1 DEF TypeOK, Slots
    <3>2. \A g \in Slots : g > n' /\ g <= maxFiles => gen'[g] = Absent
      BY <1>1, <1>2, <1>3, <2>1 DEF TypeOK, Slots
    <3> QED  BY <1>2, <1>4, <2>1, <3>1, <3>2 DEF ProgressOK
  <2>2. CASE n = 0 /\ n' = 0 /\ pc' = "writeNext"
    <3>1. \A g \in Slots : g <= maxFiles => gen'[g] = Absent
      BY <1>1, <1>2, <1>3, <2>2 DEF TypeOK, Slots
    <3> QED  BY <1>2, <1>4, <2>2, <3>1 DEF ProgressOK
  <2> QED  BY <1>5, <2>1, <2>2
<1>10. WriterOK'  BY <1>1, <1>2, <1>4, <1>5 DEF WriterOK
<1>11. Files' = Files
  <2>1. ASSUME NEW g \in Slots PROVE View(g)' = View(g)
    <3>1. journal' = "staging" /\ journal = "staging"  BY <1>2, <1>4
    <3>2. CASE g = n
      BY <1>1, <1>2, <1>3, <3>1, <3>2, FileFacts DEF View, Contents, TypeOK
    <3>3. CASE g # n  BY <1>3, <3>1, <3>3 DEF View, Contents
    <3> QED  BY <3>2, <3>3
  <2> QED  BY <2>1 DEF Files
<1> QED  BY <1>7, <1>8, <1>9, <1>10, <1>11 DEF IInv

\* Publishing one staged file keeps the log as it reads.
LEMMA PublishStep == IInv /\ Publish => IInv' /\ Files' = Files
<1> SUFFICES ASSUME IInv, Publish PROVE IInv' /\ Files' = Files  OBVIOUS
<1> USE AuditAssumption
<1>1. TypeOK /\ DiskOK /\ ProgressOK /\ WriterOK  BY DEF IInv
<1>2. /\ pc = "publish" /\ journal = "publishing" /\ n \in Slots /\ n < maxFiles
      /\ \A g \in Slots : g > n /\ g < maxFiles => stage[g] = Absent
  BY <1>1 DEF Publish, ProgressOK, TypeOK
<1>3. n + 1 \in Slots /\ maxFiles \in Nat /\ n \in Nat /\ n + 1 # 0
  BY <1>1, <1>2 DEF TypeOK, Slots
<1>4. /\ gen' \in [Slots -> File \cup {Absent}] /\ stage' \in [Slots -> File \cup {Absent}]
      /\ \A g \in Slots \ {n + 1} : gen'[g] = gen[g]
      /\ \A g \in Slots \ {n} : stage'[g] = stage[g]
      /\ stage'[n] = Absent
      /\ gen'[n + 1] = IF stage[n] = Absent THEN gen[n + 1] ELSE stage[n]
  BY <1>1, <1>2, <1>3 DEF Publish, TypeOK
<1>5. /\ journal' = journal /\ maxFiles' = maxFiles /\ next' = next /\ size' = size
      /\ ready' = ready /\ disabled' = disabled /\ entry' = entry /\ count' = count
      /\ fault' = fault
  BY DEF Publish
<1>6. (n > 0 /\ n' = n - 1 /\ pc' = "publish") \/ (n = 0 /\ n' = 0 /\ pc' = "drop")
  BY <1>2 DEF Publish, Descend, Goto
<1>7. n' \in Slots  BY <1>2, <1>6 DEF Slots
<1>8. TypeOK'  BY <1>1, <1>4, <1>5, <1>6, <1>7 DEF TypeOK
<1>9. DiskOK'
  <2>1. gen'[0] = Absent  BY <1>1, <1>2, <1>3, <1>4, FileFacts DEF DiskOK
  <2>2. \A g \in Slots : g > maxFiles => stage'[g] = Absent
    BY <1>1, <1>4 DEF DiskOK
  <2>3. maxFiles # 0  BY <1>2, <1>3
  <2> QED  BY <1>2, <1>5, <2>1, <2>2, <2>3 DEF DiskOK, Phases
<1>10. ProgressOK'
  <2>1. CASE n > 0 /\ n' = n - 1 /\ pc' = "publish"
    <3>1. n' < maxFiles  BY <1>2, <1>3, <2>1
    <3>2. \A g \in Slots : g > n' /\ g < maxFiles => stage'[g] = Absent
      BY <1>2, <1>3, <1>4, <2>1 DEF Slots
    <3> QED  BY <1>2, <1>5, <2>1, <3>1, <3>2 DEF ProgressOK
  <2>2. CASE n = 0 /\ n' = 0 /\ pc' = "drop"
    <3>1. \A g \in Slots : g < maxFiles => stage'[g] = Absent
      BY <1>2, <1>3, <1>4, <2>2 DEF Slots
    <3> QED  BY <1>2, <1>5, <2>2, <3>1 DEF ProgressOK
  <2> QED  BY <1>6, <2>1, <2>2
<1>11. WriterOK'  BY <1>1, <1>2, <1>5, <1>6 DEF WriterOK
<1>12. Files' = Files
  <2>1. ASSUME NEW g \in Slots PROVE View(g)' = View(g)
    <3>1. journal' = "publishing" /\ journal = "publishing"  BY <1>2, <1>5
    <3>2. CASE g = n + 1
      <4>1. g > 0 /\ g <= maxFiles /\ g - 1 = n  BY <1>2, <1>3, <3>2
      <4> QED
        BY <1>1, <1>2, <1>4, <1>5, <3>1, <3>2, <4>1, FileFacts DEF View, Contents, TypeOK
    <3>3. CASE g # n + 1
      <4>1. gen'[g] = gen[g]  BY <1>4, <3>3
      <4>2. g > 0 => g - 1 \in Slots /\ g - 1 # n  BY <1>3, <3>3 DEF Slots
      <4> QED  BY <1>4, <1>5, <3>1, <4>1, <4>2 DEF View, Contents
    <3> QED  BY <3>2, <3>3
  <2> QED  BY <2>1 DEF Files
<1> QED  BY <1>8, <1>9, <1>10, <1>11, <1>12 DEF IInv

\* Steps that touch no file, and those that only write a journal.
LEMMA WriteStep == ASSUME IInv, NEW b \in EntrySizes, Write(b) PROVE IInv' /\ Files' = Files
<1> USE AuditAssumption
<1>1. TypeOK /\ DiskOK /\ ProgressOK /\ WriterOK  BY DEF IInv
<1>2. TypeOK'  BY <1>1 DEF TypeOK, Write, Goto, disk
<1>3. DiskOK'  BY <1>1 DEF DiskOK, Write, disk
<1>4. ProgressOK'  BY <1>1 DEF ProgressOK, Write, Goto, disk
<1>5. WriterOK'  BY <1>1, <1>2 DEF WriterOK, Write, Goto, disk, Stat, TypeOK
<1>6. Files' = Files  BY SameDisk DEF Write, disk
<1> QED  BY <1>2, <1>3, <1>4, <1>5, <1>6 DEF IInv

LEMMA RecoverStep == IInv /\ Recover => IInv' /\ Files' = Files
<1> SUFFICES ASSUME IInv, Recover PROVE IInv' /\ Files' = Files  OBVIOUS
<1> USE AuditAssumption
<1>1. TypeOK /\ DiskOK /\ ProgressOK /\ WriterOK  BY DEF IInv
<1>2. UNCHANGED <<gen, stage, journal, next, maxFiles, count, fault>>
  BY DEF Recover, disk
<1>3. DiskOK'  BY <1>1, <1>2 DEF DiskOK
<1>4. Files' = Files  BY <1>2, SameDisk
<1>5. maxFiles \in Nat /\ (journal \in Phases => maxFiles > 0 /\ maxFiles - 1 \in Slots)
  BY <1>1 DEF DiskOK, TypeOK, Slots, Phases
<1>6. CASE /\ journal = "staging" /\ n' = maxFiles /\ pc' = "stage"
           /\ UNCHANGED <<size, ready, disabled, entry>>
  <2>1. TypeOK'  BY <1>1, <1>2, <1>6 DEF TypeOK
  <2>2. ProgressOK'  BY <1>1, <1>2, <1>5, <1>6 DEF ProgressOK, TypeOK, Slots
  <2>3. WriterOK'  BY <1>1, <1>2, <1>6 DEF WriterOK, Recover
  <2> QED  BY <1>3, <1>4, <2>1, <2>2, <2>3 DEF IInv
<1>7. CASE /\ journal = "publishing" /\ n' = maxFiles - 1 /\ pc' = "publish"
           /\ UNCHANGED <<size, ready, disabled, entry>>
  <2>1. TypeOK'  BY <1>1, <1>2, <1>5, <1>7 DEF TypeOK, Phases
  <2>2. ProgressOK'  BY <1>1, <1>2, <1>5, <1>7 DEF ProgressOK, TypeOK, Slots
  <2>3. WriterOK'  BY <1>1, <1>2, <1>7 DEF WriterOK, Recover
  <2> QED  BY <1>3, <1>4, <2>1, <2>2, <2>3 DEF IInv
<1>8. CASE /\ journal = "absent" /\ size' = Stat(gen[0]) /\ ready' = TRUE /\ pc' = "fit"
           /\ UNCHANGED <<n, disabled, entry>>
  <2>0. Stat(gen[0]) \in Nat  BY <1>1, FileFacts DEF TypeOK
  <2>1. TypeOK'  BY <1>1, <1>2, <1>8, <2>0 DEF TypeOK
  <2>2. ProgressOK'  BY <1>1, <1>2, <1>8 DEF ProgressOK
  <2>3. WriterOK'  BY <1>1, <1>2, <1>8 DEF WriterOK, Recover, Stat
  <2> QED  BY <1>3, <1>4, <2>1, <2>2, <2>3 DEF IInv
<1>9. CASE /\ disabled' = TRUE /\ entry' = 0 /\ pc' = "idle"
           /\ UNCHANGED <<size, ready, n>>
  <2>1. TypeOK'  BY <1>1, <1>2, <1>9 DEF TypeOK
  <2>2. ProgressOK'  BY <1>1, <1>2, <1>9 DEF ProgressOK
  <2>3. WriterOK'  BY <1>1, <1>2, <1>9 DEF WriterOK
  <2> QED  BY <1>3, <1>4, <2>1, <2>2, <2>3 DEF IInv
<1> QED
  BY <1>6, <1>7, <1>8, <1>9 DEF Recover, Goto, TopStaged, TopPublished, Readable, AdoptedSize

LEMMA WriteNextStep == IInv /\ WriteNext => IInv' /\ Files' = Files
<1> SUFFICES ASSUME IInv, WriteNext PROVE IInv' /\ Files' = Files  OBVIOUS
<1>1. TypeOK /\ DiskOK /\ ProgressOK /\ WriterOK  BY DEF IInv
<1>2. TypeOK'  BY <1>1 DEF TypeOK, WriteNext, Goto
<1>3. DiskOK'  BY <1>1 DEF DiskOK, WriteNext
<1>4. ProgressOK'  BY <1>1 DEF ProgressOK, WriteNext, Goto
<1>5. WriterOK'  BY <1>1 DEF WriterOK, WriteNext, Goto
<1>6. Files' = Files  BY SameDisk DEF WriteNext
<1> QED  BY <1>2, <1>3, <1>4, <1>5, <1>6 DEF IInv

LEMMA WriteJournalStep == IInv /\ WriteJournal => IInv' /\ Files' = Files
<1> SUFFICES ASSUME IInv, WriteJournal PROVE IInv' /\ Files' = Files  OBVIOUS
<1> USE AuditAssumption
<1>1. TypeOK /\ DiskOK /\ ProgressOK /\ WriterOK  BY DEF IInv
<1>2. journal = "absent" /\ maxFiles > 0 /\ gen[0] # Absent
  BY <1>1 DEF ProgressOK, WriterOK, WriteJournal
<1>3. TypeOK'  BY <1>1 DEF TypeOK, WriteJournal, Goto, Phases
<1>4. DiskOK'
  <2>1. maxFiles # 0  BY <1>1, <1>2 DEF TypeOK, Slots
  <2> QED  BY <1>1, <1>2, <2>1 DEF DiskOK, WriteJournal, Phases
<1>5. ProgressOK'  BY <1>1 DEF ProgressOK, WriteJournal, Goto
<1>6. WriterOK'  BY <1>1 DEF WriterOK, WriteJournal, Goto
<1>7. Files' = Files  BY <1>2, SameNames DEF WriteJournal
<1> QED  BY <1>3, <1>4, <1>5, <1>6, <1>7 DEF IInv

LEMMA FitsStep == IInv /\ Fits => IInv' /\ Files' = Files
<1> SUFFICES ASSUME IInv, Fits PROVE IInv' /\ Files' = Files  OBVIOUS
<1>1. TypeOK /\ DiskOK /\ ProgressOK /\ WriterOK  BY DEF IInv
<1>2. TypeOK'  BY <1>1 DEF TypeOK, Fits, Goto, disk
<1>3. DiskOK'  BY <1>1 DEF DiskOK, Fits, disk
<1>4. ProgressOK'  BY <1>1 DEF ProgressOK, Fits, Goto, disk
<1>5. WriterOK'  BY <1>1 DEF WriterOK, Fits, Goto, disk, Stat, Full
<1>6. Files' = Files  BY SameDisk DEF Fits, disk
<1> QED  BY <1>2, <1>3, <1>4, <1>5, <1>6 DEF IInv

\* An interruption leaves the disk in order.
LEMMA InterruptedStep == IInv /\ (Fail \/ Crash) => IInv' /\ Files' = Files
<1> SUFFICES ASSUME IInv, Fail \/ Crash PROVE IInv' /\ Files' = Files  OBVIOUS
<1> USE AuditAssumption
<1>1. TypeOK /\ DiskOK /\ ProgressOK /\ WriterOK  BY DEF IInv
<1>2. /\ UNCHANGED <<gen, stage, maxFiles, count>> /\ pc' = "idle" /\ entry' = 0
      /\ \/ UNCHANGED <<journal, next>>
         \/ pc = "writeJournal" /\ journal' = "torn" /\ UNCHANGED next
         \/ pc = "writeNext" /\ next' = "torn" /\ UNCHANGED journal
  BY DEF Fail, Crash, Interrupted, Goto
<1>3. \/ disabled' = TRUE /\ fault' = TRUE /\ UNCHANGED <<size, ready, n>>
      \/ size' = 0 /\ ready' = FALSE /\ disabled' = FALSE /\ n' = 0 /\ fault' = FALSE
  BY DEF Fail, Crash
<1>4. /\ size' \in Nat /\ n' \in Slots
      /\ ready' \in BOOLEAN /\ disabled' \in BOOLEAN /\ fault' \in BOOLEAN
  <2>1. 0 \in Slots /\ 0 \in Nat  BY FileFacts
  <2>2. size \in Nat /\ n \in Slots  BY <1>1 DEF TypeOK
  <2>3. ready \in BOOLEAN /\ disabled \in BOOLEAN /\ fault \in BOOLEAN  BY <1>1 DEF TypeOK
  <2>4. size' \in Nat /\ n' \in Slots  BY <1>3, <2>1, <2>2
  <2>5. ready' \in BOOLEAN /\ disabled' \in BOOLEAN /\ fault' \in BOOLEAN
    BY <1>3, <2>3, Zenon
  <2> QED  BY <2>4, <2>5
<1>5. CASE UNCHANGED journal
  <2>1. TypeOK'  BY <1>1, <1>2, <1>5, <1>4 DEF TypeOK
  <2>2. DiskOK'  BY <1>1, <1>2, <1>5 DEF DiskOK
  <2>3. ProgressOK'  BY <1>2 DEF ProgressOK
  <2>4. WriterOK'  BY <1>2, <1>3 DEF WriterOK
  <2> QED  BY <1>2, <1>5, <2>1, <2>2, <2>3, <2>4, SameDisk DEF IInv
<1>6. CASE pc = "writeJournal" /\ journal' = "torn" /\ UNCHANGED next
  <2>0. journal = "absent" /\ maxFiles > 0
    BY <1>1, <1>6 DEF ProgressOK, WriterOK
  <2>1. TypeOK'  BY <1>1, <1>2, <1>6, <1>4 DEF TypeOK
  <2>2. DiskOK'
    <3>1. maxFiles # 0  BY <1>1, <2>0 DEF TypeOK, Slots
    <3> QED  BY <1>1, <1>2, <1>6, <2>0, <3>1 DEF DiskOK, Phases
  <2>3. ProgressOK'  BY <1>2 DEF ProgressOK
  <2>4. WriterOK'  BY <1>2, <1>3 DEF WriterOK
  <2> QED  BY <1>2, <1>6, <2>0, <2>1, <2>2, <2>3, <2>4, SameNames DEF IInv
<1> QED  BY <1>2, <1>5, <1>6

\* The end of a rotation removes what no name of the log depends on.
LEMMA DropStep == IInv /\ Drop => IInv' /\ Files' = Files
<1> SUFFICES ASSUME IInv, Drop PROVE IInv' /\ Files' = Files  OBVIOUS
<1> USE AuditAssumption
<1>1. TypeOK /\ DiskOK /\ ProgressOK /\ WriterOK  BY DEF IInv
<1>2. /\ journal = "publishing" /\ maxFiles \in Slots
      /\ \A g \in Slots : g < maxFiles => stage[g] = Absent
      /\ \A g \in Slots : g > maxFiles => stage[g] = Absent
  BY <1>1 DEF Drop, ProgressOK, DiskOK, TypeOK
<1>3. stage' \in [Slots -> File \cup {Absent}] /\ \A g \in Slots : stage'[g] = Absent
  BY <1>1, <1>2 DEF Drop, TypeOK, Slots
<1>4. TypeOK'  BY <1>1, <1>3 DEF TypeOK, Drop, Goto
<1>5. DiskOK'  BY <1>1, <1>2, <1>3 DEF DiskOK, Drop, Phases
<1>6. ProgressOK'  BY <1>1, <1>2, <1>3 DEF ProgressOK, Drop, Goto
<1>7. WriterOK'  BY <1>1 DEF WriterOK, Drop, Goto
<1>8. ASSUME NEW g \in Slots PROVE View(g)' = View(g)
  <2>1. g > 0 /\ g <= maxFiles => g - 1 \in Slots /\ stage[g - 1] = Absent /\ stage'[g - 1] = Absent
    BY <1>2, <1>3 DEF Slots
  <2> QED  BY <1>2, <2>1 DEF View, Contents, Drop
<1> QED  BY <1>4, <1>5, <1>6, <1>7, <1>8 DEF IInv, Files

LEMMA UnlogStep == IInv /\ Unlog => IInv' /\ Files' = Files
<1> SUFFICES ASSUME IInv, Unlog PROVE IInv' /\ Files' = Files  OBVIOUS
<1> USE AuditAssumption
<1>1. TypeOK /\ DiskOK /\ ProgressOK /\ WriterOK  BY DEF IInv
<1>2. journal = "publishing" /\ \A g \in Slots : stage[g] = Absent
  BY <1>1 DEF Unlog, ProgressOK
<1>3. TypeOK'  BY <1>1 DEF TypeOK, Unlog, Goto
<1>4. DiskOK'  BY <1>1, <1>2 DEF DiskOK, Unlog, Phases
<1>5. ProgressOK'  BY <1>1, <1>2 DEF ProgressOK, DiskOK, Unlog, Goto
<1>6. WriterOK'  BY <1>1 DEF WriterOK, Unlog, Goto
<1>7. ASSUME NEW g \in Slots PROVE View(g)' = View(g)
  <2>1. g > 0 => g - 1 \in Slots  BY DEF Slots
  <2> QED  BY <1>2, <2>1 DEF View, Contents, Unlog
<1> QED  BY <1>3, <1>4, <1>5, <1>6, <1>7 DEF IInv, Files

LEMMA TidyStep == IInv /\ Tidy => IInv' /\ Files' = Files
<1> SUFFICES ASSUME IInv, Tidy PROVE IInv' /\ Files' = Files  OBVIOUS
<1>1. TypeOK /\ DiskOK /\ ProgressOK /\ WriterOK  BY DEF IInv
<1>2. journal = "absent" /\ gen[0] = Absent /\ size' = 0
  BY <1>1, FileFacts DEF Tidy, ProgressOK, AdoptedSize
<1>3. TypeOK'  BY <1>1, <1>2 DEF TypeOK, Tidy, Goto
<1>4. DiskOK'  BY <1>1 DEF DiskOK, Tidy
<1>5. ProgressOK'  BY <1>1 DEF ProgressOK, Tidy, Goto
<1>6. WriterOK'  BY <1>1, <1>2 DEF WriterOK, Tidy, Goto, Stat
<1>7. Files' = Files  BY SameDisk DEF Tidy
<1> QED  BY <1>3, <1>4, <1>5, <1>6, <1>7 DEF IInv

\* The renaming of journal.next is the rotation.
LEMMA SwapStep == IInv /\ Swap => IInv' /\ L!Shift
<1> SUFFICES ASSUME IInv, Swap PROVE IInv' /\ L!Shift  OBVIOUS
<1> USE AuditAssumption
<1>1. TypeOK /\ DiskOK /\ ProgressOK /\ WriterOK  BY DEF IInv
<1>2. /\ journal = "staging" /\ journal' = "publishing" /\ maxFiles \in Slots
      /\ \A g \in Slots : g <= maxFiles => gen[g] = Absent
      /\ \A g \in Slots : g > maxFiles => stage[g] = Absent
      /\ UNCHANGED <<gen, stage, maxFiles>>
  BY <1>1 DEF Swap, ProgressOK, DiskOK, TypeOK
<1>3. maxFiles > 0 /\ maxFiles - 1 \in Slots /\ 0 \in Slots /\ gen[0] = Absent
  BY <1>1, <1>2 DEF DiskOK, Slots
<1>4. TypeOK'  BY <1>1, <1>2, <1>3 DEF TypeOK, Swap, Goto, TopPublished, Phases
<1>5. DiskOK'
  <2>1. maxFiles # 0  BY <1>2, <1>3 DEF Slots
  <2> QED  BY <1>1, <1>2, <1>3, <2>1 DEF DiskOK, Phases
<1>6. ProgressOK'
  <2>1. n' = maxFiles - 1 /\ pc' = "publish"  BY DEF Swap, Goto, TopPublished
  <2>2. n' < maxFiles /\ \A g \in Slots : ~(g > n' /\ g < maxFiles)
    BY <1>2, <2>1 DEF Slots
  <2> QED  BY <1>2, <2>1, <2>2 DEF ProgressOK
<1>7. WriterOK'  BY <1>1 DEF WriterOK, Swap, Goto
<1>8. ASSUME NEW g \in Slots
      PROVE  View(g)' = IF g = 0 THEN EmptyFile
                        ELSE IF g <= maxFiles THEN View(g - 1) ELSE View(g)
  <2>1. CASE g = 0  BY <1>2, <1>3, <2>1 DEF View, Contents, Slots
  <2>2. CASE g > 0 /\ g <= maxFiles
    <3>1. g - 1 \in Slots /\ g - 1 <= maxFiles  BY <1>2, <2>2 DEF Slots
    <3>2. gen[g] = Absent /\ gen[g - 1] = Absent  BY <1>2, <2>2, <3>1
    <3>3. View(g)' = IF stage[g - 1] # Absent THEN stage[g - 1] ELSE EmptyFile
      BY <1>2, <2>2, <3>2 DEF View, Contents
    <3>4. View(g - 1) = IF stage[g - 1] # Absent THEN stage[g - 1] ELSE EmptyFile
      BY <1>2, <3>2 DEF View, Contents
    <3>5. g # 0  BY <2>2 DEF Slots
    <3> QED  BY <2>2, <3>3, <3>4, <3>5
  <2>3. CASE g > maxFiles
    <3>1. stage[g] = Absent /\ g # 0 /\ ~(g <= maxFiles)  BY <1>2, <2>3 DEF Slots
    <3> QED  BY <1>2, <3>1 DEF View, Contents
  <2> QED  BY <1>2, <2>1, <2>2, <2>3 DEF Slots
<1>9. L!Shift
  <2>1. View(0).bytes > 0
    <3>1. stage[0] # Absent  BY <1>1, <1>2, <1>3 DEF DiskOK
    <3>2. View(0) = stage[0]  BY <1>2, <3>1 DEF View
    <3> QED  BY <1>1, <1>3, <3>1, <3>2 DEF TypeOK, File
  <2>2. \A g \in Slots : g > 0 => g - 1 \in Slots  BY DEF Slots
  <2>3. Files' = [g \in Slots |-> IF g = 0 THEN EmptyFile
                                 ELSE IF g <= maxFiles THEN View(g - 1) ELSE View(g)]
    BY <1>8 DEF Files
  <2>4. \A g \in Slots : (IF g = 0 THEN EmptyFile
                          ELSE IF g <= maxFiles THEN View(g - 1) ELSE View(g))
                      = (IF g = 0 THEN EmptyFile
                          ELSE IF g <= maxFiles THEN Files[g - 1] ELSE Files[g])
    <3> TAKE g \in Slots
    <3>1. g # 0 => Files[g - 1] = View(g - 1)  BY <2>2 DEF Files, Slots
    <3>2. Files[g] = View(g)  BY DEF Files
    <3> QED  BY <3>1, <3>2
  <2>5. Files[0].bytes > 0  BY <1>3, <2>1 DEF Files
  <2>6. UNCHANGED <<maxFiles, count>>  BY DEF Swap
  <2> QED  BY <2>3, <2>4, <2>5, <2>6 DEF L!Shift, L!EmptyFile, EmptyFile, Slots
<1> QED  BY <1>4, <1>5, <1>6, <1>7, <1>9 DEF IInv

\* Without generations, removing the live file is.
LEMMA RotateStep ==
    IInv /\ Rotate => IInv' /\ ((Files' = Files /\ UNCHANGED <<maxFiles, count>>) \/ L!Shift)
<1> SUFFICES ASSUME IInv, Rotate
             PROVE  IInv' /\ ((Files' = Files /\ UNCHANGED <<maxFiles, count>>) \/ L!Shift)
  OBVIOUS
<1> USE AuditAssumption
<1>1. TypeOK /\ DiskOK /\ ProgressOK /\ WriterOK  BY DEF IInv
<1>2. /\ pc = "fit" /\ journal = "absent" /\ size = Stat(gen[0]) /\ size > 0 /\ ready /\ ~disabled
      /\ \A g \in Slots : stage[g] = Absent
  BY <1>1 DEF Rotate, ProgressOK, WriterOK, DiskOK, Phases, Full
<1>3. gen[0] # Absent /\ gen[0] \in File /\ gen[0].bytes = size /\ 0 \in Slots
  BY <1>1, <1>2, FileFacts DEF TypeOK, Stat
<1>4. UNCHANGED <<stage, journal, next, maxFiles, ready, disabled, n, entry, count, fault>>
  BY DEF Rotate
<1>5. CASE maxFiles = 0 /\ gen' = [gen EXCEPT ![0] = Absent] /\ size' = 0 /\ pc' = "append"
  <2>1. gen' \in [Slots -> File \cup {Absent}] /\ gen'[0] = Absent
        /\ \A g \in Slots : g # 0 => gen'[g] = gen[g]
    BY <1>1, <1>3, <1>5 DEF TypeOK
  <2>2. TypeOK'  BY <1>1, <1>4, <1>5, <2>1 DEF TypeOK
  <2>3. DiskOK'  BY <1>1, <1>2, <1>4, <2>1 DEF DiskOK, Phases
  <2>4. ProgressOK'  BY <1>2, <1>4, <1>5 DEF ProgressOK
  <2>5. WriterOK'  BY <1>1, <1>2, <1>4, <1>5, <2>1 DEF WriterOK, Stat, Full
  <2>6. \A g \in Slots : View(g)' = IF g = 0 THEN EmptyFile ELSE View(g)
    BY <1>2, <1>4, <2>1 DEF View, Contents
  <2>7. \A g \in Slots : Files[g] = View(g)  BY DEF Files
  <2>8. View(0).bytes > 0  BY <1>2, <1>3 DEF View, Contents
  <2>9. Files' = [g \in Slots |-> IF g = 0 THEN EmptyFile
                                 ELSE IF g <= maxFiles THEN Files[g - 1] ELSE Files[g]]
    <3>1. \A g \in Slots : g # 0 => ~(g <= maxFiles)  BY <1>5 DEF Slots
    <3> QED  BY <2>6, <2>7, <3>1 DEF Files
  <2>10. L!Shift
    BY <1>3, <1>4, <2>7, <2>8, <2>9 DEF L!Shift, L!EmptyFile, EmptyFile, Slots
  <2> QED  BY <2>2, <2>3, <2>4, <2>5, <2>10 DEF IInv
<1>6. CASE maxFiles > 0 /\ size' = Stat(gen[0]) /\ pc' = "writeJournal" /\ UNCHANGED gen
  <2>1. TypeOK'  BY <1>1, <1>2, <1>4, <1>6 DEF TypeOK
  <2>2. DiskOK'  BY <1>1, <1>4, <1>6 DEF DiskOK
  <2>3. ProgressOK'  BY <1>2, <1>3, <1>4, <1>6 DEF ProgressOK
  <2>4. WriterOK'  BY <1>1, <1>2, <1>4, <1>6 DEF WriterOK, Stat
  <2> QED  BY <1>4, <1>6, <2>1, <2>2, <2>3, <2>4, SameDisk DEF IInv
<1> QED  BY <1>5, <1>6 DEF Rotate, Goto

\* An appended line stays within the budget.
LEMMA AppendStep ==
    IInv /\ AppendLine =>
       /\ IInv' /\ L!Record(entry) /\ entry \in EntrySizes
       /\ journal = "absent" /\ \A g \in Slots : stage[g] = Absent
<1> SUFFICES ASSUME IInv, AppendLine
             PROVE  /\ IInv' /\ L!Record(entry) /\ entry \in EntrySizes
                    /\ journal = "absent" /\ \A g \in Slots : stage[g] = Absent
  OBVIOUS
<1> USE AuditAssumption
<1>1. TypeOK /\ DiskOK /\ ProgressOK /\ WriterOK  BY DEF IInv
<1>2. /\ journal = "absent" /\ size = Stat(gen[0]) /\ ready /\ ~disabled /\ pc = "append"
      /\ \A g \in Slots : stage[g] = Absent
      /\ entry \in EntrySizes /\ count < MaxEntries /\ ~Full(size, entry)
  BY <1>1 DEF AppendLine, ProgressOK, WriterOK, DiskOK, Phases
<1>3. /\ entry \in Nat \ {0} /\ count \in Nat /\ count + 1 \in 1 .. MaxEntries
      /\ 0 \in Slots /\ size \in Nat
  BY <1>1, <1>2, FileFacts DEF TypeOK
<1>4. /\ count' = count + 1 /\ gen' = [gen EXCEPT ![0] = Appended(gen[0], count + 1, entry)]
      /\ size' = size + entry /\ entry' = 0 /\ pc' = "idle"
      /\ UNCHANGED <<stage, journal, next, maxFiles, ready, disabled, n, fault>>
  BY DEF AppendLine, Goto
<1>5. /\ Appended(gen[0], count + 1, entry) \in File
      /\ Appended(gen[0], count + 1, entry).bytes = size + entry
      /\ Appended(gen[0], count + 1, entry) = L!WithLine(Contents(gen[0]), count + 1, entry)
      /\ Contents(gen[0]).bytes = size
  <2>1. CASE gen[0] = Absent
    BY <1>2, <1>3, <2>1 DEF Appended, File, Stat, Contents, EmptyFile, L!WithLine
  <2>2. CASE gen[0] # Absent
    <3>1. gen[0] \in File  BY <1>1, <1>3, <2>2 DEF TypeOK
    <3>2. gen[0].lines \in Seq(1 .. MaxEntries) /\ gen[0].bytes \in Nat \ {0} /\ size = gen[0].bytes
      BY <1>2, <2>2, <3>1 DEF File, Stat
    <3>3. Append(gen[0].lines, count + 1) \in Seq(1 .. MaxEntries)  BY <1>3, <3>2
    <3> QED  BY <1>3, <2>2, <3>2, <3>3 DEF Appended, File, Contents, L!WithLine
  <2> QED  BY <2>1, <2>2
<1>6. gen' \in [Slots -> File \cup {Absent}] /\ gen'[0] = Appended(gen[0], count + 1, entry)
      /\ gen'[0] # Absent /\ \A g \in Slots : g # 0 => gen'[g] = gen[g]
  BY <1>1, <1>3, <1>4, <1>5, FileFacts DEF TypeOK
<1>7. TypeOK'
  <2>1. count' \in 0 .. MaxEntries /\ size' \in Nat  BY <1>3, <1>4
  <2> QED  BY <1>1, <1>4, <1>6, <2>1 DEF TypeOK
<1>8. DiskOK'  BY <1>1, <1>2, <1>4 DEF DiskOK, Phases
<1>9. ProgressOK'  BY <1>4 DEF ProgressOK
<1>10. WriterOK'  BY <1>2, <1>4, <1>5, <1>6 DEF WriterOK, Stat
<1>11. L!Record(entry)
  <2>1. \A g \in Slots : View(g) = Contents(gen[g]) /\ View(g)' = Contents(gen'[g])
    BY <1>2, <1>4 DEF View, Contents
  <2>2. Files' = [Files EXCEPT ![0] = L!WithLine(Files[0], count', entry)]
    <3>1. Files[0] = Contents(gen[0])  BY <1>3, <2>1 DEF Files
    <3>2. Contents(gen'[0]) = L!WithLine(Contents(gen[0]), count + 1, entry)
      BY <1>5, <1>6 DEF Contents
    <3>3. \A g \in Slots : g # 0 => View(g)' = View(g)  BY <1>6, <2>1
    <3>4. View(0)' = L!WithLine(Files[0], count', entry)  BY <1>3, <1>4, <2>1, <3>1, <3>2
    <3> QED  BY <3>3, <3>4 DEF Files
  <2>3. Files[0].bytes = 0 \/ Files[0].bytes + entry <= MaxBytes
    BY <1>2, <1>3, <1>5, <2>1 DEF Files, Full
  <2> QED  BY <1>4, <2>2, <2>3 DEF L!Record
<1> QED  BY <1>2, <1>7, <1>8, <1>9, <1>10, <1>11 DEF IInv

\* Every step keeps the invariant and is one step of the log or none.
LEMMA StepHolds ==
    IInv /\ [Next]_vars =>
       /\ IInv' /\ [L!Next]_(L!logVars)
       /\ [count' # count => journal = "absent" /\ \A g \in Slots : stage[g] = Absent]_vars
<1> DEFINE Quiet == Files' = Files /\ UNCHANGED <<maxFiles, count>>
           Goal == /\ IInv' /\ [L!Next]_(L!logVars)
                   /\ count' # count => journal = "absent" /\ \A g \in Slots : stage[g] = Absent
<1> SUFFICES ASSUME IInv, [Next]_vars PROVE Goal  OBVIOUS
<1>1. ASSUME IInv', Quiet PROVE Goal  BY <1>1 DEF L!logVars
<1>2. ASSUME IInv', L!Shift PROVE Goal
  BY <1>2 DEF L!Next, L!Shift
<1>3. CASE AppendLine  BY <1>3, AppendStep DEF L!Next
<1>4. CASE Swap  BY <1>2, <1>4, SwapStep
<1>5. CASE Rotate  BY <1>1, <1>2, <1>5, RotateStep
<1>6. CASE \E b \in EntrySizes : Write(b)  BY <1>1, <1>6, WriteStep DEF Write
<1>7. CASE Recover  BY <1>1, <1>7, RecoverStep DEF Recover
<1>8. CASE Stage  BY <1>1, <1>8, StageStep DEF Stage
<1>9. CASE WriteNext  BY <1>1, <1>9, WriteNextStep DEF WriteNext
<1>10. CASE Publish  BY <1>1, <1>10, PublishStep DEF Publish
<1>11. CASE Drop  BY <1>1, <1>11, DropStep DEF Drop
<1>12. CASE Unlog  BY <1>1, <1>12, UnlogStep DEF Unlog
<1>13. CASE Tidy  BY <1>1, <1>13, TidyStep DEF Tidy
<1>14. CASE Fits  BY <1>1, <1>14, FitsStep DEF Fits
<1>15. CASE WriteJournal  BY <1>1, <1>15, WriteJournalStep DEF WriteJournal
<1>16. CASE Fail \/ Crash  BY <1>1, <1>16, InterruptedStep DEF Fail, Crash, Interrupted
<1>17. CASE UNCHANGED vars
  <2>1. IInv'
    BY <1>17 DEF IInv, TypeOK, DiskOK, ProgressOK, WriterOK, vars, disk, process
  <2>2. Files' = Files  BY <1>17, SameDisk DEF vars, disk
  <2> QED  BY <1>1, <1>17, <2>1, <2>2 DEF vars
<1> QED
  BY <1>3, <1>4, <1>5, <1>6, <1>7, <1>8, <1>9, <1>10, <1>11, <1>12, <1>13, <1>14, <1>15,
     <1>16, <1>17 DEF Next

\* Names, sizes and the writer's fields keep their types.
THEOREM AuditTyped == Spec => []TypeOK
<1>1. IInv => TypeOK  BY DEF IInv
<1> QED  BY <1>1, InitHolds, StepHolds, PTL DEF Spec

\* No line is appended before an interrupted rotation is finished.
THEOREM AuditAppendsAfterRecovery == Spec => AppendsAfterRecovery
BY InitHolds, StepHolds, PTL DEF Spec, AppendsAfterRecovery

\* With crashes and failures anywhere, the log rotates at once.
THEOREM AuditImplementsLog == Spec => ImplementsLog
<1>1. Init => L!Init
  <2> SUFFICES ASSUME Init PROVE L!Init  OBVIOUS
  <2>1. \A g \in Slots : View(g) = EmptyFile  BY DEF Init, View, Contents
  <2> QED  BY <2>1 DEF Init, L!Init, Files, L!EmptyFile, EmptyFile, Slots
<1> QED  BY <1>1, InitHolds, StepHolds, PTL DEF Spec, ImplementsLog, L!Spec

----------------------------------------------------------------------------
\* A name of the log is a file or nothing.
LEMMA ViewTyped == TypeOK => \A g \in Slots : View(g) \in File \cup {EmptyFile}
<1> SUFFICES ASSUME TypeOK, NEW g \in Slots PROVE View(g) \in File \cup {EmptyFile}
  OBVIOUS
<1>1. g > 0 => g - 1 \in Slots  BY AuditAssumption DEF Slots
<1> QED  BY <1>1 DEF View, Contents, TypeOK

\* What rotates at once stays within the budget.
LEMMA BudgetStep == TypeOK /\ WithinBudget /\ [L!Next]_(L!logVars) => WithinBudget'
<1> USE AuditAssumption
<1> DEFINE Bounded(f) == Len(f.lines) > 1 => f.bytes <= MaxBytes
<1> SUFFICES ASSUME TypeOK, WithinBudget, [L!Next]_(L!logVars), NEW g \in Slots
             PROVE  Bounded(Files'[g])
  BY DEF WithinBudget, Files
<1>1. \A k \in Slots : Files[k] = View(k) /\ Bounded(Files[k])
  BY DEF WithinBudget, Files
<1>2. 0 \in Slots /\ Files[0] \in File \cup {EmptyFile} /\ DOMAIN Files = Slots
  BY <1>1, FileFacts, ViewTyped DEF Files
<1>3. Bounded(EmptyFile)  BY DEF EmptyFile
<1>4. ASSUME NEW b \in EntrySizes, L!Record(b) PROVE Bounded(Files'[g])
  <2>1. /\ Files' = [Files EXCEPT ![0] = L!WithLine(Files[0], count', b)]
        /\ Files[0].bytes = 0 \/ Files[0].bytes + b <= MaxBytes
    BY <1>4 DEF L!Record
  <2>2. CASE g # 0  BY <1>1, <1>2, <2>1, <2>2
  <2>3. CASE g = 0
    <3>1. Files'[0] = [lines |-> Append(Files[0].lines, count'), bytes |-> Files[0].bytes + b]
      BY <1>2, <2>1 DEF L!WithLine
    <3>2. CASE Files[0] = EmptyFile
      <4>1. Append(Files[0].lines, count') = <<count'>>  BY <3>2 DEF EmptyFile
      <4> QED  BY <2>3, <3>1, <4>1
    <3>3. CASE Files[0] \in File
      <4>1. Files[0].bytes # 0  BY <3>3 DEF File
      <4> QED  BY <2>1, <2>3, <3>1, <4>1
    <3> QED  BY <1>2, <3>2, <3>3
  <2> QED  BY <2>2, <2>3
<1>5. CASE L!Shift
  <2>1. Files'[g] = IF g = 0 THEN EmptyFile ELSE IF g <= maxFiles THEN Files[g - 1] ELSE Files[g]
    BY <1>5 DEF L!Shift, L!EmptyFile, EmptyFile, Slots
  <2>2. g # 0 => g - 1 \in Slots  BY DEF Slots
  <2> QED  BY <1>1, <1>3, <2>1, <2>2
<1>6. CASE UNCHANGED L!logVars  BY <1>1, <1>6 DEF L!logVars
<1> QED  BY <1>4, <1>5, <1>6 DEF L!Next

\* The limit is a ceiling over restarts as well.
THEOREM AuditWithinBudget == Spec => []WithinBudget
<1>1. Init => WithinBudget
  <2> SUFFICES ASSUME Init PROVE WithinBudget  OBVIOUS
  <2>1. \A g \in Slots : View(g) = EmptyFile  BY DEF Init, View, Contents
  <2> QED  BY <2>1 DEF WithinBudget, EmptyFile
<1>2. IInv /\ WithinBudget /\ [Next]_vars => WithinBudget'
  BY StepHolds, BudgetStep DEF IInv
<1> QED  BY <1>1, <1>2, InitHolds, StepHolds, PTL DEF Spec
----------------------------------------------------------------------------
\* A writer out of service does nothing, so its journal stays the torn one it
\* could not read, and only a restart puts it back into service.
LEMMA CauseStep == IInv /\ DisabledWithCause /\ [Next]_vars => DisabledWithCause'
<1> SUFFICES ASSUME IInv, DisabledWithCause, [Next]_vars, disabled', ~fault'
             PROVE  journal' = "torn"
  BY DEF DisabledWithCause
<1>0. /\ pc # "idle" => ~disabled
      /\ journal \in Phases \cup {"torn", "absent"}
  BY DEF IInv, WriterOK, TypeOK
<1>1. CASE Recover
  <2>1. journal' = journal /\ fault' = fault /\ ~disabled
    BY <1>0, <1>1 DEF Recover, disk
  <2>2. ~Readable(journal)  BY <1>1, <2>1 DEF Recover
  <2> QED  BY <1>0, <2>1, <2>2 DEF Readable
<1>2. CASE Fail \/ Crash
  BY <1>2 DEF Fail, Crash
<1>3. CASE UNCHANGED vars
  BY <1>3 DEF vars, disk, process, DisabledWithCause
<1>4. CASE \E b \in EntrySizes : Write(b)
  BY <1>4 DEF Write
<1>5. CASE Stage \/ WriteNext \/ Swap \/ Publish \/ Drop \/ Unlog \/ Tidy
  BY <1>0, <1>5 DEF Stage, WriteNext, Swap, Publish, Drop, Unlog, Tidy
<1>6. CASE Fits \/ Rotate \/ WriteJournal \/ AppendLine
  BY <1>0, <1>6 DEF Fits, Rotate, WriteJournal, AppendLine
<1> QED  BY <1>1, <1>2, <1>3, <1>4, <1>5, <1>6 DEF Next

\* No interrupted rotation takes the sink out of service: only a file system
\* error does, or a journal that was empty when the process was killed.
THEOREM AuditDisabledWithCause == Spec => []DisabledWithCause
<1>1. Init => DisabledWithCause  BY DEF Init, DisabledWithCause
<1> QED  BY <1>1, CauseStep, InitHolds, StepHolds, PTL DEF Spec

----------------------------------------------------------------------------
(* The wallet profiles.                                                    *)

Persisted(state, name, wallet) == name \in DOMAIN state.profiles /\ state.profiles[name].wallet = wallet

\* A waiting call holds the mutex, and whoever wants it stands in the queue.
Turns ==
    /\ \A c \in Calls : step[c] = "waiting" => tool[c] \in STATE_MUTATING_TOOLS /\ Head(queue) = c
    /\ \A c \in Calls : step[c] # "idle" /\ tool[c] \in STATE_MUTATING_TOOLS =>
           \E i \in 1 .. Len(queue) : queue[i] = c
    /\ ~up => \A c \in Calls : step[c] = "idle"

\* What a call resolved before its await is still so when it goes on, but
\* for an import of profiles.
Resolved ==
    \A c \in Calls : step[c] = "waiting" =>
        /\ tool[c] \in {"setup_wallet", "import_wallet"} => target[c] \in Names
        /\ tool[c] = "register" =>
               asked[c] \in {NotAsked, [name |-> active, wallet |-> Profile(active).wallet]}

\* A wallet reported as persisted is in the memory the next save writes.
InMemory ==
    \A name \in Names : told[name] # None /\ up =>
        name \in DOMAIN profiles /\ profiles[name].wallet = told[name]

ProfilesInv == ProfilesTypeOK /\ Turns /\ Resolved /\ InMemory /\ ToldIsKept

----------------------------------------------------------------------------
LEMMA NoAsking == NotAsked \in Askings
  BY DEF NotAsked, Askings

\* A table is a function on some of the names.
LEMMA TableShape ==
    ASSUME NEW t
    PROVE  t \in Tables <=> DOMAIN t \subseteq Names /\ t \in [DOMAIN t -> ProfileRecords]
<1>1. ASSUME t \in Tables PROVE DOMAIN t \subseteq Names /\ t \in [DOMAIN t -> ProfileRecords]
  <2>1. PICK S \in SUBSET Names : t \in [S -> ProfileRecords]
    BY <1>1 DEF Tables
  <2> QED
    BY <2>1
<1>2. ASSUME DOMAIN t \subseteq Names, t \in [DOMAIN t -> ProfileRecords] PROVE t \in Tables
  BY <1>2 DEF Tables
<1> QED
  BY <1>1, <1>2

LEMMA ProfileIsRecord ==
    ASSUME profiles \in Tables, NEW name
    PROVE  Profile(name) \in ProfileRecords
  BY TableShape DEF Profile, Empty, ProfileRecords

\* Setting one profile leaves the others as they were.
LEMMA WithKeeps ==
    ASSUME profiles \in Tables, NEW name \in Names, NEW p \in ProfileRecords
    PROVE  /\ With(name, p) \in Tables
           /\ DOMAIN With(name, p) = DOMAIN profiles \cup {name}
           /\ With(name, p)[name] = p
           /\ \A m \in DOMAIN profiles : m # name => With(name, p)[m] = profiles[m]
<1>1. DOMAIN profiles \subseteq Names /\ profiles \in [DOMAIN profiles -> ProfileRecords]
  BY TableShape
<1>2. With(name, p) \in [DOMAIN profiles \cup {name} -> ProfileRecords]
  BY <1>1 DEF With
<1>3. With(name, p) \in Tables
  BY <1>1, <1>2, TableShape
<1> QED
  BY <1>3 DEF With

\* The profiles that are written, and that a wallet is reason enough.
LEMMA PersistableKept ==
    ASSUME NEW table, NEW name
    PROVE  /\ Persistable(table, name) \subseteq DOMAIN table
           /\ \A m \in DOMAIN table : table[m].wallet # None => m \in Persistable(table, name)
  BY DEF Persistable

\* A save writes a state file, or leaves the one there is.
LEMMA SaveWrites ==
    ASSUME file \in StateFiles \cup {None}, profiles' \in Tables, active' \in Names,
           NEW saved \in BOOLEAN, Save(saved)
    PROVE  /\ file' \in StateFiles \cup {None}
           /\ \/ ~saved /\ file' = file
              \/ /\ file' # None
                 /\ \A m \in DOMAIN profiles' : profiles'[m].wallet # None =>
                        Persisted(file', m, profiles'[m].wallet)
<1>1. CASE ~saved /\ file' = file
  BY <1>1
<1>2. CASE ~(~saved /\ file' = file)
  <2> DEFINE kept == Persistable(profiles', active')
             written == [m \in kept |-> profiles'[m]]
  <2>1. file' = [active |-> active', profiles |-> written]
    BY <1>2 DEF Save
  <2>2. kept \subseteq DOMAIN profiles'
        /\ \A m \in DOMAIN profiles' : profiles'[m].wallet # None => m \in kept
    BY PersistableKept
  <2>3. DOMAIN profiles' \subseteq Names /\ profiles' \in [DOMAIN profiles' -> ProfileRecords]
    BY TableShape
  <2>4. written \in Tables
    <3>1. DOMAIN written \subseteq Names /\ written \in [DOMAIN written -> ProfileRecords]
      BY <2>2, <2>3
    <3> QED
      BY <3>1, TableShape
  <2>5. file' \in StateFiles
    BY <2>1, <2>4 DEF StateFiles
  <2>6. file' # None
    BY <2>5, ProfilesAssumption
  <2>7. \A m \in DOMAIN profiles' : profiles'[m].wallet # None =>
            Persisted(file', m, profiles'[m].wallet)
    BY <2>1, <2>2 DEF Persisted
  <2> QED
    BY <1>2, <2>5, <2>6, <2>7
<1> QED
  BY <1>1, <1>2

----------------------------------------------------------------------------
\* A running call of a mutating tool is the head of the queue, and the only
\* one that may wait.
LEMMA Running ==
    ASSUME ProfilesTypeOK, Turns, NEW c \in Calls, tool[c] \in STATE_MUTATING_TOOLS,
           step[c] = "waiting" \/ MayRun(c, tool[c])
    PROVE  /\ queue # <<>> /\ Head(queue) = c
           /\ \A d \in Calls : step[d] = "waiting" => d = c
  BY DEF ProfilesTypeOK, Turns, MayRun

\* A call that ends passes the mutex on, and nobody waits behind it.
LEMMA FinishKeepsTurns ==
    ASSUME ProfilesTypeOK, Turns, NEW c \in Calls,
           step[c] = "waiting" \/ MayRun(c, tool[c]),
           up' = up, queue' = Released(c),
           step' = [step EXCEPT ![c] = "idle"], tool' = [tool EXCEPT ![c] = None]
    PROVE  /\ Turns'
           /\ queue' \in Seq(Calls)
           /\ \A d \in Calls : step'[d] = "waiting" =>
                 /\ step[d] = "waiting" /\ d # c /\ tool'[d] = tool[d]
                 /\ tool[c] \notin STATE_MUTATING_TOOLS
<1>1. \A d \in Calls : d # c => step'[d] = step[d] /\ tool'[d] = tool[d]
  BY DEF ProfilesTypeOK
<1>2. step'[c] = "idle"
  BY DEF ProfilesTypeOK
<1>3. CASE tool[c] \in STATE_MUTATING_TOOLS
  <2>1. queue' = Tail(queue) /\ queue # <<>> /\ Head(queue) = c
        /\ \A d \in Calls : step[d] = "waiting" => d = c
    BY <1>3, Running DEF Released
  <2>2. queue' \in Seq(Calls)
    BY <2>1 DEF ProfilesTypeOK
  <2>3. ASSUME NEW d \in Calls, step'[d] # "idle", tool'[d] \in STATE_MUTATING_TOOLS
        PROVE  \E i \in 1 .. Len(queue') : queue'[i] = d
    <3>1. d # c /\ step[d] # "idle" /\ tool[d] \in STATE_MUTATING_TOOLS
      BY <1>1, <1>2, <2>3
    <3>2. PICK i \in 1 .. Len(queue) : queue[i] = d
      BY <3>1 DEF Turns
    <3>3. i # 1 /\ Len(queue') = Len(queue) - 1
      BY <2>1, <3>1, <3>2 DEF ProfilesTypeOK
    <3>4. i - 1 \in 1 .. Len(queue') /\ queue'[i - 1] = d
      BY <2>1, <3>2, <3>3 DEF ProfilesTypeOK
    <3> QED
      BY <3>4
  <2>4. \A d \in Calls : step'[d] # "waiting"
    BY <1>1, <1>2, <2>1
  <2> QED
    BY <1>1, <1>2, <2>2, <2>3, <2>4 DEF Turns
<1>4. CASE tool[c] \notin STATE_MUTATING_TOOLS
  BY <1>1, <1>2, <1>4 DEF Turns, Released, ProfilesTypeOK
<1> QED
  BY <1>3, <1>4

\* The same for the rest of the invariant, when the memory may change.
LEMMA FinishKeepsResolved ==
    ASSUME ProfilesTypeOK, Turns, Resolved, NEW c \in Calls,
           step[c] = "waiting" \/ MayRun(c, tool[c]),
           up' = up, Finish(c),
           tool[c] \in STATE_MUTATING_TOOLS \/ UNCHANGED memory
    PROVE  /\ Turns' /\ Resolved'
           /\ queue' \in Seq(Calls) /\ step' \in [Calls -> {"idle", "called", "waiting"}]
           /\ tool' \in [Calls -> Tools \cup {None}]
           /\ target' \in [Calls -> Names \cup {None}]
           /\ account' \in [Calls -> Accounts \cup {None}]
           /\ asked' \in [Calls -> Askings]
<1>1. /\ Turns' /\ queue' \in Seq(Calls)
      /\ \A d \in Calls : step'[d] = "waiting" =>
            /\ step[d] = "waiting" /\ d # c /\ tool'[d] = tool[d]
            /\ tool[c] \notin STATE_MUTATING_TOOLS
  BY FinishKeepsTurns DEF Finish
<1>2. /\ step' \in [Calls -> {"idle", "called", "waiting"}]
      /\ tool' \in [Calls -> Tools \cup {None}]
      /\ target' \in [Calls -> Names \cup {None}]
      /\ account' \in [Calls -> Accounts \cup {None}]
      /\ asked' \in [Calls -> Askings]
  BY NoAsking DEF Finish, ProfilesTypeOK, Askings
<1>3. \A d \in Calls : d # c => target'[d] = target[d] /\ account'[d] = account[d]
                               /\ asked'[d] = asked[d]
  BY DEF Finish, ProfilesTypeOK, Askings
<1>4. Resolved'
  BY <1>1, <1>3 DEF Resolved, Profile, memory
<1> QED
  BY <1>1, <1>2, <1>4

\* What is in memory when it is saved is on disk if the save succeeds, and
\* what was promised before is there if it does not.
LEMMA SaveKeepsPromises ==
    ASSUME ProfilesTypeOK, ToldIsKept, NEW saved \in BOOLEAN, Save(saved),
           profiles' \in Tables, active' \in Names, told' \in [Names -> Accounts \cup {None}],
           \A name \in Names : told'[name] # None =>
               /\ name \in DOMAIN profiles' /\ profiles'[name].wallet = told'[name]
               /\ saved \/ told[name] = told'[name]
    PROVE  file' \in StateFiles \cup {None} /\ InMemory' /\ ToldIsKept'
<1>1. /\ file' \in StateFiles \cup {None}
      /\ \/ ~saved /\ file' = file
         \/ /\ file' # None
            /\ \A m \in DOMAIN profiles' : profiles'[m].wallet # None =>
                   Persisted(file', m, profiles'[m].wallet)
  BY SaveWrites DEF ProfilesTypeOK
<1>2. InMemory'
  BY DEF InMemory
<1>3. CASE file' # None /\ \A m \in DOMAIN profiles' : profiles'[m].wallet # None =>
               Persisted(file', m, profiles'[m].wallet)
  BY <1>1, <1>2, <1>3 DEF ToldIsKept, Persisted
<1>4. CASE ~saved /\ file' = file
  BY <1>1, <1>2, <1>4 DEF ToldIsKept
<1> QED
  BY <1>1, <1>2, <1>3, <1>4

\* The keys a step may bring into the table.
KeyStep ==
    \A name \in DOMAIN profiles' :
        up /\ up' /\ profiles'[name].key \notin {None, Profile(name).key} =>
            \E c \in Calls :
                /\ step[c] = "waiting" /\ tool[c] = "register"
                /\ profiles'[name].key = account[c]
                /\ asked[c] \in {NotAsked, [name |-> name, wallet |-> profiles'[name].wallet]}

----------------------------------------------------------------------------
LEMMA ProfilesInitHolds == ProfilesInit => ProfilesInv
<1> SUFFICES ASSUME ProfilesInit PROVE ProfilesInv
  OBVIOUS
<1>1. profiles \in Tables
  BY TableShape DEF ProfilesInit, Nothing
<1> QED
  BY <1>1, NoAsking, ProfilesAssumption
     DEF ProfilesInit, ProfilesInv, ProfilesTypeOK, Turns, Resolved, InMemory, ToldIsKept

\* A call enters the queue behind those that are in it.
LEMMA DispatchKeeps ==
    ASSUME ProfilesInv, NEW c \in Calls, NEW t \in Tools, Dispatch(c, t)
    PROVE  ProfilesInv' /\ KeyStep
<1> USE DEF ProfilesInv, Dispatch
<1>1. ProfilesTypeOK'
  BY DEF ProfilesTypeOK, memory, history
<1>2. \A d \in Calls : d # c => step'[d] = step[d] /\ tool'[d] = tool[d]
  BY DEF ProfilesTypeOK
<1>3. step'[c] = "called" /\ tool'[c] = t
  BY DEF ProfilesTypeOK
<1>4. ASSUME NEW d \in Calls, step'[d] = "waiting"
      PROVE  tool'[d] \in STATE_MUTATING_TOOLS /\ Head(queue') = d
  <2>1. step[d] = "waiting" /\ d # c
    BY <1>2, <1>3, <1>4
  <2>2. tool[d] \in STATE_MUTATING_TOOLS
    BY <2>1 DEF Turns
  <2>3. queue # <<>> /\ Head(queue) = d
    BY <2>1, <2>2, Running
  <2> QED
    BY <1>2, <2>1, <2>2, <2>3 DEF ProfilesTypeOK
<1>5. ASSUME NEW d \in Calls, step'[d] # "idle", tool'[d] \in STATE_MUTATING_TOOLS
      PROVE  \E i \in 1 .. Len(queue') : queue'[i] = d
  <2>1. CASE d = c
    <3>1. queue' = Append(queue, c)
      BY <1>3, <1>5, <2>1
    <3>2. Len(queue') \in 1 .. Len(queue') /\ queue'[Len(queue')] = c
      BY <3>1 DEF ProfilesTypeOK
    <3> QED
      BY <2>1, <3>2
  <2>2. CASE d # c
    <3>1. PICK i \in 1 .. Len(queue) : queue[i] = d
      BY <1>2, <1>5, <2>2 DEF Turns
    <3>2. i \in 1 .. Len(queue') /\ queue'[i] = d
      BY <3>1 DEF ProfilesTypeOK
    <3> QED
      BY <3>2
  <2> QED
    BY <2>1, <2>2
<1>6. Turns'
  BY <1>4, <1>5 DEF Turns
<1>7. Resolved' /\ InMemory' /\ ToldIsKept'
  BY <1>2, <1>3 DEF Resolved, InMemory, ToldIsKept, Profile, memory, history
<1>8. KeyStep
  BY DEF KeyStep, Profile, memory
<1> QED
  BY <1>1, <1>6, <1>7, <1>8

\* A call that begins to wait has resolved what it needs.
LEMMA AwaitKeeps ==
    ASSUME ProfilesInv, NEW c \in Calls,
           NEW resolved \in Names \cup {None}, NEW wallet \in Accounts \cup {None},
           NEW asking \in Askings, asked' = [asked EXCEPT ![c] = asking],
           Await(c, resolved, wallet), MayRun(c, tool[c]), tool[c] \in STATE_MUTATING_TOOLS,
           tool[c] \in {"setup_wallet", "import_wallet"} => resolved \in Names,
           tool[c] = "register" => asking = [name |-> active, wallet |-> Profile(active).wallet]
    PROVE  ProfilesInv' /\ KeyStep
<1> USE DEF ProfilesInv, Await
<1>1. ProfilesTypeOK'
  BY DEF ProfilesTypeOK, memory, Askings
<1>2. \A d \in Calls : d # c =>
         step'[d] = step[d] /\ target'[d] = target[d] /\ asked'[d] = asked[d]
  BY DEF ProfilesTypeOK
<1>3. step'[c] = "waiting" /\ target'[c] = resolved /\ asked'[c] = asking /\ step[c] = "called"
      /\ up' = up /\ queue' = queue /\ tool' = tool
  BY DEF ProfilesTypeOK, MayRun
<1>4. Head(queue) = c
  BY Running
<1>5. up
  BY <1>3 DEF Turns
<1>6. Turns'
  BY <1>2, <1>3, <1>4, <1>5 DEF Turns
<1>7. Resolved'
  BY <1>2, <1>3 DEF Resolved, Profile, memory
<1>8. InMemory' /\ ToldIsKept' /\ KeyStep
  BY DEF InMemory, ToldIsKept, KeyStep, Profile, memory
<1> QED
  BY <1>1, <1>6, <1>7, <1>8

\* A call that throws changes nothing but its turn.
LEMMA ThrowKeeps ==
    ASSUME ProfilesInv, NEW c \in Calls, step[c] = "waiting" \/ MayRun(c, tool[c]), Throw(c)
    PROVE  ProfilesInv' /\ KeyStep
<1> USE DEF ProfilesInv, Throw
<1>1. Turns' /\ Resolved' /\ ProfilesTypeOK'
  BY FinishKeepsResolved DEF ProfilesTypeOK, memory
<1>2. InMemory' /\ ToldIsKept' /\ KeyStep
  BY DEF InMemory, ToldIsKept, KeyStep, Profile, memory
<1> QED
  BY <1>1, <1>2

----------------------------------------------------------------------------
\* register asks for a key for the active wallet.
LEMMA RegisterKeeps ==
    ASSUME ProfilesInv, NEW c \in Calls, Register(c)
    PROVE  ProfilesInv' /\ KeyStep
<1>1. MayRun(c, "register") /\ tool[c] = "register"
  BY DEF Register, MayRun
<1>2. CASE Throw(c)
  BY <1>1, <1>2, ThrowKeeps
<1> DEFINE asking == [name |-> active, wallet |-> Profile(active).wallet]
<1>3. ASSUME NEW a \in Accounts, Await(c, None, a), asked' = [asked EXCEPT ![c] = asking]
      PROVE  ProfilesInv' /\ KeyStep
  <2>1. asking \in Askings
    BY ProfileIsRecord DEF ProfilesInv, ProfilesTypeOK, ProfileRecords, Askings
  <2> QED
    BY <1>1, <1>3, <2>1, AwaitKeeps DEF STATE_MUTATING_TOOLS
<1> QED
  BY <1>2, <1>3 DEF Register

LEMMA ResolveKeeps ==
    ASSUME ProfilesInv, NEW c \in Calls, ResolveProfile(c)
    PROVE  ProfilesInv' /\ KeyStep
<1>1. MayRun(c, tool[c]) /\ tool[c] \in {"setup_wallet", "import_wallet"}
  BY DEF ResolveProfile, MayRun
<1>2. PICK name \in Names : Await(c, name, None)
  BY DEF ResolveProfile
<1>3. asked[c] \in Askings /\ asked' = [asked EXCEPT ![c] = asked[c]]
  BY DEF ResolveProfile, ProfilesInv, ProfilesTypeOK, Askings
<1> QED
  BY <1>1, <1>2, <1>3, AwaitKeeps DEF STATE_MUTATING_TOOLS

LEMMA FailsKeeps ==
    ASSUME ProfilesInv, NEW c \in Calls, Fails(c)
    PROVE  ProfilesInv' /\ KeyStep
  BY ThrowKeeps DEF Fails

\* The key that comes is put into the profile it was asked for, whose wallet
\* is still the one that was read.
LEMMA StoreKeyKeeps ==
    ASSUME ProfilesInv, NEW c \in Calls, StoreKey(c)
    PROVE  ProfilesInv' /\ KeyStep
<1> USE DEF ProfilesInv, StoreKey
<1> DEFINE p == [Profile(active) EXCEPT !.key = account[c]]
<1>1. /\ Turns' /\ Resolved' /\ queue' \in Seq(Calls)
      /\ step' \in [Calls -> {"idle", "called", "waiting"}]
      /\ tool' \in [Calls -> Tools \cup {None}]
      /\ target' \in [Calls -> Names \cup {None}] /\ account' \in [Calls -> Accounts \cup {None}]
      /\ asked' \in [Calls -> Askings]
  BY FinishKeepsResolved DEF STATE_MUTATING_TOOLS
<1>2. p \in ProfileRecords /\ p.wallet = Profile(active).wallet /\ p.key = account[c]
  BY ProfileIsRecord DEF ProfilesTypeOK, ProfileRecords
<1>3. /\ profiles' \in Tables /\ DOMAIN profiles' = DOMAIN profiles \cup {active}
      /\ profiles'[active] = p
      /\ \A m \in DOMAIN profiles : m # active => profiles'[m] = profiles[m]
  BY <1>2, WithKeeps DEF ProfilesTypeOK
<1>4. active' = active /\ Save(FALSE)
  BY DEF SaveUnseen
<1>5. up
  BY DEF Turns
<1>6. \A name \in Names : told[name] # None =>
         name \in DOMAIN profiles' /\ profiles'[name].wallet = told[name]
  BY <1>2, <1>3, <1>5 DEF InMemory, Profile
<1>7. told' = told /\ told' \in [Names -> Accounts \cup {None}] /\ active' \in Names
  BY <1>4 DEF ProfilesTypeOK
<1>8. file' \in StateFiles \cup {None} /\ InMemory' /\ ToldIsKept'
  BY <1>3, <1>4, <1>6, <1>7, SaveKeepsPromises
<1>9. ProfilesTypeOK'
  BY <1>1, <1>3, <1>7, <1>8 DEF ProfilesTypeOK
<1>10. KeyStep
  <2>1. step[c] = "waiting" /\ tool[c] = "register"
        /\ asked[c] \in {NotAsked, [name |-> active, wallet |-> Profile(active).wallet]}
    BY DEF Resolved
  <2>2. profiles'[active].key = account[c] /\ profiles'[active].wallet = Profile(active).wallet
    BY <1>2, <1>3
  <2>3. \A name \in DOMAIN profiles' : name # active => profiles'[name].key = Profile(name).key
    BY <1>3 DEF Profile
  <2> QED
    BY <2>1, <2>2, <2>3 DEF KeyStep
<1> QED
  BY <1>1, <1>8, <1>9, <1>10

\* A wallet replaces that of the profile resolved before the await, and what
\* was told of it is what the save answered.
LEMMA StoreWalletKeeps ==
    ASSUME ProfilesInv, NEW c \in Calls, StoreWallet(c)
    PROVE  ProfilesInv' /\ KeyStep
<1> USE DEF ProfilesInv, StoreWallet
<1>1. /\ Turns' /\ Resolved' /\ queue' \in Seq(Calls)
      /\ step' \in [Calls -> {"idle", "called", "waiting"}]
      /\ tool' \in [Calls -> Tools \cup {None}]
      /\ target' \in [Calls -> Names \cup {None}] /\ account' \in [Calls -> Accounts \cup {None}]
      /\ asked' \in [Calls -> Askings]
  BY FinishKeepsResolved DEF STATE_MUTATING_TOOLS
<1>2. target[c] \in Names
  BY DEF Resolved
<1>3. PICK a \in Accounts, saved \in BOOLEAN :
         /\ active' = target[c]
         /\ profiles' = With(target[c], [Profile(target[c]) EXCEPT !.wallet = a])
         /\ Save(saved)
         /\ Tell(target[c], IF saved THEN a ELSE None)
  BY DEF SaveUnseen
<1> DEFINE p == [Profile(target[c]) EXCEPT !.wallet = a]
           news == IF saved THEN a ELSE None
<1>4. p \in ProfileRecords /\ p.wallet = a /\ p.key = Profile(target[c]).key
  BY ProfileIsRecord DEF ProfilesTypeOK, ProfileRecords
<1>5. /\ profiles' \in Tables /\ DOMAIN profiles' = DOMAIN profiles \cup {target[c]}
      /\ profiles'[target[c]] = p
      /\ \A m \in DOMAIN profiles : m # target[c] => profiles'[m] = profiles[m]
  BY <1>2, <1>3, <1>4, WithKeeps DEF ProfilesTypeOK
<1>6. /\ told' \in [Names -> Accounts \cup {None}] /\ told'[target[c]] = news
      /\ \A name \in Names : name # target[c] => told'[name] = told[name]
  BY <1>2, <1>3 DEF Tell, ProfilesTypeOK
<1>7. up
  BY DEF Turns
<1>8. \A name \in Names : told'[name] # None =>
         /\ name \in DOMAIN profiles' /\ profiles'[name].wallet = told'[name]
         /\ saved \/ told[name] = told'[name]
  <2>1. told'[target[c]] # None => told'[target[c]] = a /\ saved
    BY <1>6
  <2>2. \A name \in Names : name # target[c] /\ told[name] # None =>
            name \in DOMAIN profiles' /\ profiles'[name].wallet = told[name]
    BY <1>5, <1>7 DEF InMemory
  <2> QED
    BY <1>4, <1>5, <1>6, <2>1, <2>2
<1>9. file' \in StateFiles \cup {None} /\ InMemory' /\ ToldIsKept'
  BY <1>2, <1>3, <1>5, <1>6, <1>8, SaveKeepsPromises
<1>10. ProfilesTypeOK'
  BY <1>1, <1>2, <1>3, <1>5, <1>6, <1>9 DEF ProfilesTypeOK
<1>11. KeyStep
  BY <1>4, <1>5 DEF KeyStep, Profile
<1> QED
  BY <1>1, <1>9, <1>10, <1>11

----------------------------------------------------------------------------
\* Selecting a profile adds it at most.
LEMMA UseProfileKeeps ==
    ASSUME ProfilesInv, NEW c \in Calls, UseProfile(c)
    PROVE  ProfilesInv' /\ KeyStep
<1> USE DEF ProfilesInv, UseProfile
<1>1. MayRun(c, tool[c]) /\ tool[c] \in STATE_MUTATING_TOOLS
  BY DEF MayRun, STATE_MUTATING_TOOLS
<1>2. /\ Turns' /\ Resolved' /\ queue' \in Seq(Calls)
      /\ step' \in [Calls -> {"idle", "called", "waiting"}]
      /\ tool' \in [Calls -> Tools \cup {None}]
      /\ target' \in [Calls -> Names \cup {None}] /\ account' \in [Calls -> Accounts \cup {None}]
      /\ asked' \in [Calls -> Askings]
  BY <1>1, FinishKeepsResolved
<1>3. PICK name \in Names :
         active' = name /\ profiles' = With(name, Profile(name)) /\ Save(FALSE)
  BY DEF SaveUnseen
<1>4. /\ profiles' \in Tables /\ DOMAIN profiles' = DOMAIN profiles \cup {name}
      /\ profiles'[name] = Profile(name)
      /\ \A m \in DOMAIN profiles : m # name => profiles'[m] = profiles[m]
  <2>1. profiles \in Tables /\ Profile(name) \in ProfileRecords
    BY ProfileIsRecord DEF ProfilesTypeOK
  <2>2. profiles' = With(name, Profile(name))
    BY <1>3
  <2> QED
    BY <2>1, <2>2, WithKeeps
<1>5. \A m \in DOMAIN profiles' : profiles'[m] = Profile(m)
  BY <1>4 DEF Profile
<1>6. up
  BY <1>1 DEF Turns, MayRun
<1>7. \A m \in Names : told[m] # None =>
         m \in DOMAIN profiles' /\ profiles'[m].wallet = told[m]
  BY <1>4, <1>5, <1>6 DEF InMemory, Profile
<1>8. told' \in [Names -> Accounts \cup {None}] /\ active' \in Names /\ told' = told
  BY <1>3 DEF ProfilesTypeOK
<1>9. file' \in StateFiles \cup {None} /\ InMemory' /\ ToldIsKept'
  BY <1>3, <1>4, <1>7, <1>8, SaveKeepsPromises
<1>10. ProfilesTypeOK'
  BY <1>2, <1>4, <1>8, <1>9 DEF ProfilesTypeOK
<1>11. KeyStep
  BY <1>5 DEF KeyStep
<1> QED
  BY <1>2, <1>9, <1>10, <1>11

\* A reset takes back what was told of the profile, and of no other.
LEMMA ResetActiveKeeps ==
    ASSUME ProfilesInv, NEW c \in Calls, ResetActive(c)
    PROVE  ProfilesInv' /\ KeyStep
<1> USE DEF ProfilesInv, ResetActive
<1>1. MayRun(c, tool[c]) /\ tool[c] \in STATE_MUTATING_TOOLS
  BY DEF MayRun, STATE_MUTATING_TOOLS
<1>2. /\ Turns' /\ Resolved' /\ queue' \in Seq(Calls)
      /\ step' \in [Calls -> {"idle", "called", "waiting"}]
      /\ tool' \in [Calls -> Tools \cup {None}]
      /\ target' \in [Calls -> Names \cup {None}] /\ account' \in [Calls -> Accounts \cup {None}]
      /\ asked' \in [Calls -> Askings]
  BY <1>1, FinishKeepsResolved
<1>3. /\ DOMAIN profiles' = DOMAIN profiles \ {active}
      /\ \A m \in DOMAIN profiles' : profiles'[m] = profiles[m]
  BY DEF Without
<1>4. profiles' \in Tables
  <2>1. DOMAIN profiles \subseteq Names /\ profiles \in [DOMAIN profiles -> ProfileRecords]
    BY TableShape DEF ProfilesTypeOK
  <2>2. profiles' \in [DOMAIN profiles' -> ProfileRecords]
    BY <1>3, <2>1 DEF Without
  <2> QED
    BY <1>3, <2>1, <2>2, TableShape
<1>5. Save(FALSE)
  BY DEF SaveUnseen
<1>6. /\ told' \in [Names -> Accounts \cup {None}] /\ told'[active] = None
      /\ \A name \in Names : name # active => told'[name] = told[name]
  BY DEF Tell, ProfilesTypeOK
<1>7. up
  BY <1>1 DEF Turns, MayRun
<1>8. \A name \in Names : told'[name] # None =>
         /\ name \in DOMAIN profiles' /\ profiles'[name].wallet = told'[name]
         /\ told[name] = told'[name]
  BY <1>3, <1>6, <1>7 DEF InMemory
<1>9. active' \in Names
  BY DEF ProfilesTypeOK
<1>10. file' \in StateFiles \cup {None} /\ InMemory' /\ ToldIsKept'
  BY <1>4, <1>5, <1>6, <1>8, <1>9, SaveKeepsPromises
<1>11. ProfilesTypeOK'
  BY <1>2, <1>4, <1>6, <1>9, <1>10 DEF ProfilesTypeOK
<1>12. KeyStep
  BY <1>3 DEF KeyStep, Profile
<1> QED
  BY <1>2, <1>10, <1>11, <1>12

LEMMA ResetAllKeeps ==
    ASSUME ProfilesInv, NEW c \in Calls, ResetAll(c)
    PROVE  ProfilesInv' /\ KeyStep
<1> USE DEF ProfilesInv, ResetAll
<1>1. MayRun(c, tool[c]) /\ tool[c] \in STATE_MUTATING_TOOLS
  BY DEF MayRun, STATE_MUTATING_TOOLS
<1>2. /\ Turns' /\ Resolved' /\ queue' \in Seq(Calls)
      /\ step' \in [Calls -> {"idle", "called", "waiting"}]
      /\ tool' \in [Calls -> Tools \cup {None}]
      /\ target' \in [Calls -> Names \cup {None}] /\ account' \in [Calls -> Accounts \cup {None}]
      /\ asked' \in [Calls -> Askings]
  BY <1>1, FinishKeepsResolved
<1>3. profiles' \in Tables /\ DOMAIN profiles' = {}
  BY TableShape DEF Nothing
<1>4. /\ active' \in Names /\ file' \in StateFiles \cup {None}
      /\ told' \in [Names -> Accounts \cup {None}] /\ \A name \in Names : told'[name] = None
  BY ProfilesAssumption DEF ProfilesTypeOK
<1>5. ProfilesTypeOK'
  BY <1>2, <1>3, <1>4 DEF ProfilesTypeOK
<1>6. InMemory' /\ ToldIsKept' /\ KeyStep
  BY <1>3, <1>4 DEF InMemory, ToldIsKept, KeyStep
<1> QED
  BY <1>2, <1>5, <1>6

\* An import runs beside a waiting call, and is remembered for it.
LEMMA ImportKeeps ==
    ASSUME ProfilesInv, NEW c \in Calls, ImportProfiles(c)
    PROVE  ProfilesInv' /\ KeyStep
<1> USE DEF ProfilesInv, ImportProfiles
<1>1. MayRun(c, tool[c]) /\ tool[c] \notin STATE_MUTATING_TOOLS
  BY DEF MayRun, STATE_MUTATING_TOOLS
<1>2. /\ Turns' /\ queue' \in Seq(Calls)
      /\ \A d \in Calls : step'[d] = "waiting" => step[d] = "waiting" /\ tool'[d] = tool[d]
  BY <1>1, FinishKeepsTurns
<1>3. Resolved'
  BY <1>2 DEF Resolved
<1>4. PICK new \in SUBSET Names :
         /\ profiles' = [m \in DOMAIN profiles \cup new |-> Profile(m)]
         /\ active' \in Names /\ Save(FALSE)
  BY DEF SaveUnseen
<1>5. profiles' \in Tables
  <2>1. DOMAIN profiles \subseteq Names
    BY TableShape DEF ProfilesTypeOK
  <2>2. \A m \in DOMAIN profiles' : profiles'[m] \in ProfileRecords
    BY <1>4, ProfileIsRecord DEF ProfilesTypeOK
  <2>3. profiles' \in [DOMAIN profiles' -> ProfileRecords]
    BY <1>4, <2>2
  <2> QED
    BY <1>4, <2>1, <2>3, TableShape
<1>6. \A m \in DOMAIN profiles' : profiles'[m] = Profile(m)
  BY <1>4
<1>7. up
  BY <1>1 DEF Turns, MayRun
<1>8. \A m \in Names : told[m] # None =>
         m \in DOMAIN profiles' /\ profiles'[m].wallet = told[m]
  BY <1>4, <1>6, <1>7 DEF InMemory, Profile
<1>9. told' \in [Names -> Accounts \cup {None}] /\ active' \in Names /\ told' = told
  BY <1>4 DEF ProfilesTypeOK
<1>10. file' \in StateFiles \cup {None} /\ InMemory' /\ ToldIsKept'
  BY <1>4, <1>5, <1>8, <1>9, SaveKeepsPromises
<1>11. ProfilesTypeOK'
  BY <1>2, <1>5, <1>9, <1>10, NoAsking DEF ProfilesTypeOK
<1>12. KeyStep
  BY <1>6 DEF KeyStep
<1> QED
  BY <1>2, <1>3, <1>10, <1>11, <1>12

----------------------------------------------------------------------------
\* The process saves once more, ends, and starts with what is on disk.
LEMMA ShutdownKeeps ==
    ASSUME ProfilesInv, Shutdown
    PROVE  ProfilesInv' /\ KeyStep
<1> USE DEF ProfilesInv, Shutdown
<1>1. UNCHANGED memory /\ Save(FALSE)
  BY DEF SaveUnseen
<1>2. /\ profiles' = profiles /\ active' = active /\ told' = told /\ up' = up
      /\ UNCHANGED <<queue, step, tool, target, account, asked>>
  BY <1>1 DEF memory, call, history
<1>3. profiles' \in Tables /\ active' \in Names /\ told' \in [Names -> Accounts \cup {None}]
  BY <1>2 DEF ProfilesTypeOK
<1>4. \A name \in Names : told'[name] # None =>
         /\ name \in DOMAIN profiles' /\ profiles'[name].wallet = told'[name]
         /\ told[name] = told'[name]
  BY <1>2 DEF InMemory
<1>5. file' \in StateFiles \cup {None} /\ InMemory' /\ ToldIsKept'
  BY <1>1, <1>3, <1>4, SaveKeepsPromises
<1>6. ProfilesTypeOK'
  BY <1>2, <1>3, <1>5 DEF ProfilesTypeOK
<1>7. Turns' /\ Resolved' /\ KeyStep
  BY <1>2 DEF Turns, Resolved, KeyStep, Profile
<1> QED
  BY <1>5, <1>6, <1>7

LEMMA ExitKeeps ==
    ASSUME ProfilesInv, Exit
    PROVE  ProfilesInv' /\ KeyStep
<1> USE DEF ProfilesInv, Exit
<1>1. profiles' \in Tables
  BY TableShape DEF Nothing
<1>2. ProfilesTypeOK'
  <2>1. active' \in Names /\ up' \in BOOLEAN /\ file' = file /\ told' = told
    BY ProfilesAssumption
  <2>2. queue' \in Seq(Calls) /\ step' \in [Calls -> {"idle", "called", "waiting"}]
    OBVIOUS
  <2>3. /\ tool' \in [Calls -> Tools \cup {None}] /\ asked' \in [Calls -> Askings]
        /\ target' \in [Calls -> Names \cup {None}]
        /\ account' \in [Calls -> Accounts \cup {None}]
    BY NoAsking
  <2> QED
    BY <1>1, <2>1, <2>2, <2>3 DEF ProfilesTypeOK
<1>3. Turns' /\ Resolved' /\ InMemory' /\ ToldIsKept' /\ KeyStep
  BY DEF Turns, Resolved, InMemory, ToldIsKept, KeyStep
<1> QED
  BY <1>2, <1>3

LEMMA BootKeeps ==
    ASSUME ProfilesInv, Boot
    PROVE  ProfilesInv' /\ KeyStep
<1> USE DEF ProfilesInv, Boot
<1>1. up' /\ ~up /\ UNCHANGED <<queue, step, tool, target, account, told, asked>>
  BY DEF call, history
<1>2. Turns' /\ Resolved' /\ KeyStep
  BY <1>1 DEF Turns, Resolved, KeyStep
<1>3. CASE UNCHANGED memory /\ file' \in {None, file} /\ (file = None \/ DOMAIN file.profiles = {})
  <2>1. \A name \in Names : told[name] = None
    BY <1>3 DEF ToldIsKept
  <2>2. ProfilesTypeOK'
    BY <1>1, <1>3 DEF ProfilesTypeOK, memory
  <2>3. InMemory' /\ ToldIsKept'
    BY <1>1, <2>1 DEF InMemory, ToldIsKept
  <2> QED
    BY <1>2, <2>2, <2>3
<1>4. CASE /\ file # None /\ profiles' = file.profiles
           /\ active' \in ActiveOf(file) /\ file' = file
  <2>1. file \in StateFiles
    BY <1>4 DEF ProfilesTypeOK
  <2>2. file.profiles \in Tables /\ file.active \in Names
    BY <2>1 DEF StateFiles
  <2>3. active' \in Names
    BY <1>4, <2>2, TableShape DEF ActiveOf
  <2>4. ProfilesTypeOK'
    BY <1>1, <1>4, <2>2, <2>3 DEF ProfilesTypeOK
  <2>5. InMemory' /\ ToldIsKept'
    BY <1>1, <1>4 DEF InMemory, ToldIsKept
  <2> QED
    BY <1>2, <2>4, <2>5
<1> QED
  BY <1>3, <1>4

LEMMA ProfilesStep == ProfilesInv /\ [ProfilesNext]_profilesVars => ProfilesInv' /\ KeyStep
<1> SUFFICES ASSUME ProfilesInv, [ProfilesNext]_profilesVars PROVE ProfilesInv' /\ KeyStep
  OBVIOUS
<1>1. CASE \E c \in Calls, t \in Tools : Dispatch(c, t)
  BY <1>1, DispatchKeeps
<1>2. CASE \E c \in Calls : Run(c)
  BY <1>2, RegisterKeeps, StoreKeyKeeps, ResolveKeeps, StoreWalletKeeps, FailsKeeps,
     UseProfileKeeps, ResetActiveKeeps, ResetAllKeeps, ImportKeeps DEF Run
<1>3. CASE Shutdown \/ Exit \/ Boot
  BY <1>3, ShutdownKeeps, ExitKeeps, BootKeeps
<1>4. CASE UNCHANGED profilesVars
  <2> USE <1>4 DEF profilesVars, memory, call, history
  <2>1. ProfilesTypeOK' /\ Turns'
    BY DEF ProfilesInv, ProfilesTypeOK, Turns
  <2>2. Resolved' /\ InMemory' /\ ToldIsKept' /\ KeyStep
    BY DEF ProfilesInv, Resolved, InMemory, ToldIsKept, KeyStep, Profile
  <2> QED
    BY <2>1, <2>2 DEF ProfilesInv
<1> QED
  BY <1>1, <1>2, <1>3, <1>4 DEF ProfilesNext

LEMMA ProfilesInvariance == ProfilesSpec => []ProfilesInv
  BY ProfilesInitHolds, ProfilesStep, PTL DEF ProfilesSpec

\* The table, the state file, the calls and the queue keep their types.
THEOREM ProfilesTyped == ProfilesSpec => []ProfilesTypeOK
  BY ProfilesInvariance, PTL DEF ProfilesInv

\* No order of overlapping calls, failed saves and restarts loses a wallet
\* that setup_wallet called persisted.
THEOREM ProfilesToldIsKept == ProfilesSpec => []ToldIsKept
  BY ProfilesInvariance, PTL DEF ProfilesInv

\* register stores its key in the profile it was asked for, still with the
\* wallet that was read, whatever ran during the await, an import of profiles
\* excepted; and nothing else brings a key.
THEOREM ProfilesKeyForItsProfile == ProfilesSpec => KeyForItsProfile
<1>1. ProfilesInv /\ [ProfilesNext]_profilesVars =>
         [\A name \in DOMAIN profiles' :
             up /\ up' /\ profiles'[name].key \notin {None, Profile(name).key} =>
                 \E c \in Calls :
                     /\ step[c] = "waiting" /\ tool[c] = "register"
                     /\ profiles'[name].key = account[c]
                     /\ asked[c] \in {NotAsked, [name   |-> name,
                                               wallet |-> profiles'[name].wallet]}]_profilesVars
  BY ProfilesStep DEF KeyStep
<1> QED
  BY <1>1, ProfilesInvariance, PTL DEF ProfilesSpec, KeyForItsProfile
=============================================================================
