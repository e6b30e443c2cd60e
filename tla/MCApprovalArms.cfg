\* Two things may go another way, in one arm or in two.
SPECIFICATION ArmsSpec
CONSTANT
    MaxFaults = 2
INVARIANTS
    ControlsVouch
    ArmTrue
CHECK_DEADLOCK FALSE
