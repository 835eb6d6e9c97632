CONSTANTS
    work_processes = 2
    Pid = {11, 12, 13}
    MaxSigint = 2
SPECIFICATION Spec
INVARIANTS SignalsOnlyWorkers NoZombieForgotten KilledOnlyByFlags
 
