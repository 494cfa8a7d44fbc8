CONSTANT Streams <- MCStreams
SPECIFICATION Spec
INVARIANTS TypeOK DecodeMatchesReference
CHECK_DEADLOCK FALSE
