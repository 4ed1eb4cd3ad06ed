SPECIFICATION TlsSpec
CONSTANTS
    RecordHalves <- MCRecordHalves
    MaxData = 2
    MaxBytes <- MCMaxBytes
CHECK_DEADLOCK FALSE
INVARIANTS PeersAgreeUndisturbed NothingLeftBehindUndisturbed
PROPERTIES RecvIsStream
