SPECIFICATION Spec
INVARIANTS SuperbufsSound SettingsSound MemorySound
PROPERTIES StepsSound
CHECK_DEADLOCK FALSE
