SPECIFICATION Spec
CONSTANTS
    N = 4
    NoFrame = NoFrame
INVARIANTS FoundIffEligible SecondChance
