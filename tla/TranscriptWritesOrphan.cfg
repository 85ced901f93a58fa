SPECIFICATION Spec
CONSTANT MaxContents = 2
INVARIANT NoOrphanedFiles
