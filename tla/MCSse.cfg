CONSTANT Bodies <- MCBodies
SPECIFICATION Spec
INVARIANTS TypeOK CutsDoNotMatter HeldBackIfBroken FramedAsLines
CHECK_DEADLOCK FALSE
