SPECIFICATION Spec
CONSTANTS
    Txns = {t1, t2}
    NoTxn = NoTxn
    ProjectTypes = {"FLYER"}
    MaxVersions <- TwoAnalyses
SYMMETRY Connections
PROPERTY NoSupersededApproval
CHECK_DEADLOCK FALSE
