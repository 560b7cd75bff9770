--------------------------- MODULE AuditRotation ---------------------------
(***************************************************************************)
(* RotatingJsonlWriter of the MCP server: a JSONL file rotated by size into *)
(* numbered generations, in two phases under a journal, so that a restart  *)
(* can finish what a crash interrupted.  One step is one file operation;   *)
(* the process may be killed, or the operation fail, before any of them.   *)
(*                                                                         *)
(* A file is the ids of its lines and its size.  A rename, a removal and   *)
(* the append of a line happen whole or not at all; writing a journal does *)
(* not, since writeFileSync first creates an empty file.                   *)
(***************************************************************************)
EXTENDS Naturals, Sequences

CONSTANTS
    TopFiles,   \* the largest MINDVAULT_AUDIT_LOG_MAX_FILES
    MaxBytes,   \* config.maxBytes
    EntrySizes, \* sizes of a serialised entry
    MaxEntries, \* bound: entries in a behaviour
    Absent      \* no file under this name

Slots == 0 .. TopFiles
File == [lines : Seq(1 .. MaxEntries), bytes : Nat \ {0}]
Phases == {"staging", "publishing"}

ASSUME AuditAssumption ==
    /\ TopFiles \in Nat /\ MaxBytes \in Nat /\ MaxEntries \in Nat
    /\ EntrySizes \subseteq Nat \ {0}
    /\ Absent \notin File

VARIABLES
    gen,      \* the live file (0) and the generations path.1, path.2, ...
    stage,    \* path.rotation-stage-n
    journal,  \* path.rotation-journal: its text, "torn" or "absent"
    next,     \* path.rotation-journal.next
    maxFiles, \* config.maxFiles
    size, ready, disabled,  \* the writer's fields
    pc, n,    \* the operation write() is about to do, and its loop counter
    entry,    \* size of the entry being written, 0 between calls
    count,    \* history: entries appended
    fault     \* history: a file operation of this process failed

disk    == <<gen, stage, journal, next>>
process == <<size, ready, disabled, pc, n, entry>>
vars    == <<disk, maxFiles, process, count, fault>>

\* statSync(path).size, or 0 where there is no file.
Stat(f) == IF f = Absent THEN 0 ELSE f.bytes

Init ==
    /\ gen = [g \in Slots |-> Absent]
    /\ stage = [g \in Slots |-> Absent]
    /\ journal = "absent" /\ next = "absent"
    /\ maxFiles \in Slots
    /\ size = 0 /\ ready = FALSE /\ disabled = FALSE
    /\ pc = "idle" /\ n = 0 /\ entry = 0
    /\ count = 0 /\ fault = FALSE

Goto(p) == pc' = p

\* A loop goes on with the next smaller n, or ends.
Descend(last) ==
    \/ n > 0 /\ n' = n - 1 /\ UNCHANGED pc
    \/ n = 0 /\ n' = 0 /\ Goto(last)

----------------------------------------------------------------------------
\* write: a disabled sink drops the entry.
Write(b) ==
    /\ pc = "idle" /\ ~disabled /\ count < MaxEntries
    /\ entry' = b
    /\ Goto(IF ready THEN "fit" ELSE "recover")
    /\ UNCHANGED <<disk, maxFiles, size, ready, disabled, n, count, fault>>

\* The size ensureReady adopts from an existing log.
AdoptedSize_Zero(f) == 0
AdoptedSize(f) == Stat(f)

\* The loops run from these generations down to 0.
TopStaged == maxFiles
TopPublished_OneShort == IF maxFiles > 1 THEN maxFiles - 2 ELSE 0
TopPublished == maxFiles - 1

\* recoverInterruptedRotation reads the journal; without one, ensureReady
\* goes on.  A journal that names no phase throws.
Readable_AnyText(text) == TRUE
Readable_FirstPhaseOnly(text) == text \in {"staging", "absent"}
Readable(text) == text \in Phases \cup {"absent"}

Recover ==
    /\ pc = "recover"
    /\ \/ /\ journal = "staging" /\ n' = TopStaged /\ Goto("stage")
          /\ UNCHANGED <<size, ready, disabled, entry>>
       \/ /\ journal = "publishing" /\ n' = TopPublished /\ Goto("publish")
          /\ UNCHANGED <<size, ready, disabled, entry>>
       \/ /\ journal \notin Phases /\ Readable(journal)
          /\ size' = AdoptedSize(gen[0]) /\ ready' = TRUE /\ Goto("fit")
          /\ UNCHANGED <<n, disabled, entry>>
       \/ /\ ~Readable(journal)
          /\ disabled' = TRUE /\ entry' = 0 /\ Goto("idle")
          /\ UNCHANGED <<size, ready, n>>
    /\ UNCHANGED <<disk, maxFiles, count, fault>>

\* One source is moved aside, unless that was done before the interruption.
Stage ==
    /\ pc = "stage"
    /\ IF stage[n] = Absent /\ gen[n] # Absent
       THEN /\ stage' = [stage EXCEPT ![n] = gen[n]]
            /\ gen' = [gen EXCEPT ![n] = Absent]
       ELSE UNCHANGED <<stage, gen>>
    /\ Descend("writeNext")
    /\ UNCHANGED <<journal, next, maxFiles, size, ready, disabled, entry, count, fault>>

\* The phase changes by writing journal.next and renaming it.
WriteNext ==
    /\ pc = "writeNext"
    /\ next' = "publishing"
    /\ Goto("swap")
    /\ UNCHANGED <<gen, stage, journal, maxFiles, size, ready, disabled, n, entry, count, fault>>

Swap ==
    /\ pc = "swap"
    /\ journal' = next /\ next' = "absent"
    /\ n' = TopPublished /\ Goto("publish")
    /\ UNCHANGED <<gen, stage, maxFiles, size, ready, disabled, entry, count, fault>>

\* One staged file becomes the generation after its own.
Publish ==
    /\ pc = "publish"
    /\ IF stage[n] # Absent
       THEN /\ gen' = [gen EXCEPT ![n + 1] = stage[n]]
            /\ stage' = [stage EXCEPT ![n] = Absent]
       ELSE UNCHANGED <<stage, gen>>
    /\ Descend("drop")
    /\ UNCHANGED <<journal, next, maxFiles, size, ready, disabled, entry, count, fault>>

\* The generation past maxFiles, then the journals are removed.
Drop ==
    /\ pc = "drop"
    /\ stage' = [stage EXCEPT ![maxFiles] = Absent]
    /\ Goto("unlog")
    /\ UNCHANGED <<gen, journal, next, maxFiles, size, ready, disabled, n, entry, count, fault>>

Unlog ==
    /\ pc = "unlog"
    /\ journal' = "absent"
    /\ Goto("tidy")
    /\ UNCHANGED <<gen, stage, next, maxFiles, size, ready, disabled, n, entry, count, fault>>

\* The end of recoverInterruptedRotation, for ensureReady or for rotate.
Tidy ==
    /\ pc = "tidy"
    /\ next' = "absent"
    /\ size' = IF ready THEN 0 ELSE AdoptedSize(gen[0])
    /\ ready' = TRUE
    /\ Goto("fit")
    /\ UNCHANGED <<gen, stage, journal, maxFiles, disabled, n, entry, count, fault>>

\* Whether the line would push the file past the limit.
Full(s, b) == s > 0 /\ s + b > MaxBytes

Fits ==
    /\ pc = "fit" /\ ~Full(size, entry)
    /\ Goto("append")
    /\ UNCHANGED <<disk, maxFiles, size, ready, disabled, n, entry, count, fault>>

\* rotate: without generations the live file is discarded.
Rotate ==
    /\ pc = "fit" /\ Full(size, entry)
    /\ \/ /\ maxFiles = 0
          /\ gen' = [gen EXCEPT ![0] = Absent]
          /\ size' = 0 /\ Goto("append")
       \/ /\ maxFiles > 0
          /\ size' = Stat(gen[0]) /\ Goto("writeJournal")
          /\ UNCHANGED gen
    /\ UNCHANGED <<stage, journal, next, maxFiles, ready, disabled, n, entry, count, fault>>

WriteJournal ==
    /\ pc = "writeJournal"
    /\ journal' = "staging"
    /\ Goto("recover")
    /\ UNCHANGED <<gen, stage, next, maxFiles, size, ready, disabled, n, entry, count, fault>>

Appended(f, id, b) ==
    IF f = Absent THEN [lines |-> <<id>>, bytes |-> b]
                  ELSE [lines |-> Append(f.lines, id), bytes |-> f.bytes + b]

AppendLine ==
    /\ pc = "append"
    /\ count' = count + 1
    /\ gen' = [gen EXCEPT ![0] = Appended(@, count', entry)]
    /\ size' = size + entry /\ entry' = 0 /\ Goto("idle")
    /\ UNCHANGED <<stage, journal, next, maxFiles, ready, disabled, n, fault>>

----------------------------------------------------------------------------
\* What an operation that did not succeed left behind.
Interrupted ==
    /\ \/ UNCHANGED <<journal, next>>
       \/ pc = "writeJournal" /\ journal' = "torn" /\ UNCHANGED next
       \/ pc = "writeNext" /\ next' = "torn" /\ UNCHANGED journal
    /\ UNCHANGED <<gen, stage, maxFiles, count>>
    /\ Goto("idle") /\ entry' = 0

\* A file system error takes the sink out of service for good.
Fail ==
    /\ pc # "idle"
    /\ Interrupted
    /\ disabled' = TRUE /\ fault' = TRUE
    /\ UNCHANGED <<size, ready, n>>

\* The server is killed and started again with an empty writer.
Crash ==
    /\ Interrupted
    /\ size' = 0 /\ ready' = FALSE /\ disabled' = FALSE /\ n' = 0 /\ fault' = FALSE

Next ==
    \/ \E b \in EntrySizes : Write(b)
    \/ Recover \/ Stage \/ WriteNext \/ Swap \/ Publish \/ Drop \/ Unlog \/ Tidy
    \/ Fits \/ Rotate \/ WriteJournal \/ AppendLine
    \/ Fail \/ Crash

Spec == Init /\ [][Next]_vars

----------------------------------------------------------------------------
\* Types; a file has a line as soon as it exists.
TypeOK ==
    /\ gen \in [Slots -> File \cup {Absent}]
    /\ stage \in [Slots -> File \cup {Absent}]
    /\ journal \in Phases \cup {"torn", "absent"}
    /\ next \in {"publishing", "torn", "absent"}
    /\ maxFiles \in Slots /\ size \in Nat /\ n \in Slots
    /\ ready \in BOOLEAN /\ disabled \in BOOLEAN /\ fault \in BOOLEAN
    /\ pc \in {"idle", "recover", "stage", "writeNext", "swap", "publish", "drop", "unlog",
               "tidy", "fit", "writeJournal", "append"}
    /\ entry \in EntrySizes \cup {0}
    /\ count \in 0 .. MaxEntries

\* The log as its names will read once the journal has been followed.
EmptyFile == [lines |-> <<>>, bytes |-> 0]
Contents(f) == IF f = Absent THEN EmptyFile ELSE f
View(g) ==
    IF journal = "publishing"
    THEN IF g > 0 /\ g <= maxFiles /\ stage[g - 1] # Absent THEN stage[g - 1]
                                                            ELSE Contents(gen[g])
    ELSE IF stage[g] # Absent THEN stage[g] ELSE Contents(gen[g])

Files == [g \in Slots |-> View(g)]

\* "MAX_BYTES is a real ceiling rather than a threshold the file is allowed to
\* pass" (docs/mcp-audit-log.md), over restarts that adopt an existing file:
\* a file exceeds it only with a single line.
WithinBudget ==
    \A g \in Slots : Len(View(g).lines) > 1 => View(g).bytes <= MaxBytes

\* "resumes the remaining steps before appending another event"
\* (docs/mcp-audit-rotation-recovery.md): nothing is appended while a journal
\* or a staged file is left.
AppendsAfterRecovery ==
    [][count' # count => journal = "absent" /\ \A g \in Slots : stage[g] = Absent]_vars

\* The log seen through the journal is one that rotates at once: the renaming
\* of journal.next is the moment of the rotation, whatever crashes around it.
L == INSTANCE AuditLog WITH files <- Files, limit <- maxFiles
ImplementsLog == L!Spec

\* The sink goes out of service for a file system error, or for a journal that
\* was empty when the process was killed: no rotation that was interrupted
\* between two operations, or while it was being resumed, disables it.
DisabledWithCause == disabled /\ ~fault => journal = "torn"
=============================================================================
