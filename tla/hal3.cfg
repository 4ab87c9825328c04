SPECIFICATION Spec
INVARIANTS StreamsSound PictureSound
PROPERTIES StepsSound AllComesBack
CHECK_DEADLOCK FALSE
