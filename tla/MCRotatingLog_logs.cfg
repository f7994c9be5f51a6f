\* Three backups of at most three bytes, with every failure.
SPECIFICATION Spec
CONSTANTS
    Absent = Absent
    stdout = stdout
    stderr = stderr
    MaxBytes = 3
    MaxFiles = 3
    MaxChunk = 2
    MaxWritten = 13
    Streams = {stdout, stderr}
    Faults = {"shift", "rename", "open", "write"}
SYMMETRY EitherStream
INVARIANTS
    SizeBounded
    LosesOldestFirst
    LosesOnlyForRoom
PROPERTIES
    DegradesGracefully
