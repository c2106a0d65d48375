CONSTANTS
    Worker = {w1, w2}
    Workspace = {ws}
    Host = {pf}
    jump = jump
    host = host
    Target = {jump, host}
    Question <- Questions
    MaxRequest = 2
SPECIFICATION Spec
INVARIANTS
    PromptsAreSound
PROPERTIES
    AnswersTheQuestion
    WaitEnds
