------------------------------ MODULE AuditLog ------------------------------
(***************************************************************************)
(* What the audit log promises its readers: entries are appended to the    *)
(* live file, which never outgrows its budget, and a rotation moves every  *)
(* generation up by one at once.  There are no crashes here.               *)
(***************************************************************************)
EXTENDS Naturals, Sequences

CONSTANTS TopFiles, MaxBytes, EntrySizes

VARIABLES
    files,  \* the live file is number 0, the generations are 1, 2, ...
    limit,  \* how many generations are kept
    count   \* entries appended so far

logVars == <<files, limit, count>>

EmptyFile == [lines |-> <<>>, bytes |-> 0]
WithLine(f, id, b) == [lines |-> Append(f.lines, id), bytes |-> f.bytes + b]

Init ==
    /\ files = [g \in 0 .. TopFiles |-> EmptyFile]
    /\ limit \in 0 .. TopFiles
    /\ count = 0

\* Only an entry that is larger than the budget by itself exceeds it.
Record(b) ==
    /\ files[0].bytes = 0 \/ files[0].bytes + b <= MaxBytes
    /\ count' = count + 1
    /\ files' = [files EXCEPT ![0] = WithLine(@, count', b)]
    /\ UNCHANGED limit

Shift ==
    /\ files[0].bytes > 0
    /\ files' = [g \in 0 .. TopFiles |->
                   IF g = 0 THEN EmptyFile ELSE IF g <= limit THEN files[g - 1] ELSE files[g]]
    /\ UNCHANGED <<limit, count>>

Next == (\E b \in EntrySizes : Record(b)) \/ Shift

Spec == Init /\ [][Next]_logVars
=============================================================================
