SPECIFICATION CrcSpec
CONSTANT Buffers <- MCBuffers
INVARIANTS CrcsAgree
CHECK_DEADLOCK FALSE
