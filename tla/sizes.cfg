SPECIFICATION Spec
CONSTANTS
    CpuQuantities <- MCCpus
    MemoryQuantities <- MCMemories
INVARIANTS BigEnoughIsAdmitted RequestsAreQuarters
\* A pod has been built: there is nothing more to do.
CHECK_DEADLOCK FALSE
