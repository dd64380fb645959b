\* Two rounds of the wizard loop, each prompt re-asked at most twice, every
\* answer (None included) at every prompt.
CONSTANTS
    None = None
    MaxRounds = 2
    MaxLoops = 2
SPECIFICATION Spec
INVARIANT CancelNeverCrashes
