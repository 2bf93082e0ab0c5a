SPECIFICATION Spec
INVARIANT FramesLeaveInOrder
PROPERTY ReferencesAreSound
