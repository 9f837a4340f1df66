\* A reset the kernel refused is reported as issued.
SPECIFICATION Spec
CONSTANTS
    Argvs <- ResetArgvs
INVARIANTS
    IssuedIsTrue
