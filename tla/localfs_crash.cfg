\* A client dies after it wrote the blob and before it wrote the version.
SPECIFICATION CrashSpec
CONSTANTS
    Procs = {p1, p2}
    MaxWrites = 2
INVARIANT SwapIsAtomic
CHECK_DEADLOCK FALSE
