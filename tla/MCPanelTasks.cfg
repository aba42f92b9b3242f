\* A knob whose samples come on time or a whole PRESS_MS late; a memory with
\* resets enough to fill its ring and overwrite the oldest entry; a display
\* with texts that fit, scroll once and scroll twice.
SPECIFICATION FairSpec
CONSTANTS
    PressTime = 4
    MaxStep = 2
    MaxStall = 4
    PerDetent = 3
    MaxSkip = 2
    InputSize = 1
    RingSize = 2
    MaxUptime = 1
    MaxFails = 1
    MaxResets = 3
    Blank = " "
    Width = 3
    MinSlotHold = 6
    ScrollStep = 2
    CharScrollCount = 2
    EndPause = 3
    Second = 2
    Views <- MCViews
    Still <- MCStill
    MaxAge = 2
    MaxLate = 3
INVARIANT TypeOK
INVARIANT HeldIsPressed
INVARIANT RingKeeps
INVARIANT PanicsShown
INVARIANT GlassShows
PROPERTY TwoSamplesEach
PROPERTY TicksAreTurns
PROPERTY BootTellsLastRun
PROPERTY TurnIsHad
PROPERTY TurnsComeRound
