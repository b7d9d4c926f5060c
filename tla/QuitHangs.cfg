\* What an app that is quit comes to.
SPECIFICATION FairSpec
CHECK_DEADLOCK FALSE
PROPERTIES
    QuitEnds
