SPECIFICATION Spec
\* programs exit
CHECK_DEADLOCK FALSE
INVARIANT HeapConsistent
INVARIANT LinesReadBack
INVARIANT PromptsClean
INVARIANT ChecksGiveBack
INVARIANT LinkedAndRelocatedOnce
INVARIANT FunctionsMatch
INVARIANT ImageLoaded
INVARIANT BootInOrder
PROPERTY EditsAreSequenceEdits
