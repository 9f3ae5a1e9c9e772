SPECIFICATION Spec
CONSTANTS
    ProjectTypes = {"FLYER", "CAROUSEL"}
    MaxVersions = 1
PROPERTY FinalIsStable
CHECK_DEADLOCK FALSE
