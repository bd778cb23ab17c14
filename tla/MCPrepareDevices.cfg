SPECIFICATION Spec
CONSTANTS
    r1 = r1
    r2 = r2
    gpu = gpu
    vfio = vfio
    mig = mig
    hami1 = hami1
    hami2 = hami2
    Requests <- MCRequests
    Devices <- MCDevices
    TypeOf <- MCTypeOf
    Inputs <- MCInputs
\* The call returns.
CHECK_DEADLOCK FALSE
INVARIANTS
    TypeOK
    Precedence
    RefusedForCause
    IdsResolve
    LimitsComplete
PROPERTY Decided
