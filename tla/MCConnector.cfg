SPECIFICATION Spec
CONSTANTS
    MaxInits = 3
    Confs <- MCConfs
    FileOf <- MCFileOf
    Views = {1, 2}
INVARIANTS ResourcesAccounted NoCrash CredentialsFollow ViewsSound
CHECK_DEADLOCK FALSE
