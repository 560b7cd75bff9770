\* Up to three generations, two small lines to a file, one line above the limit.
SPECIFICATION Spec
CONSTANTS
    TopFiles = 3
    MaxBytes = 2
    EntrySizes = {1, 3}
    MaxEntries = 9
    Absent = Absent
INVARIANTS WithinBudget DisabledWithCause
PROPERTIES AppendsAfterRecovery ImplementsLog
