SPECIFICATION Spec
INVARIANTS PostProcessingSound FramesSound DeferredSound  RequestsSound HintsSound
PROPERTIES StepsSound WorkEnds
CHECK_DEADLOCK FALSE
