SPECIFICATION BufferFairSpec
CONSTANTS
    Handlers = {h1, h2}
    Reaper = Reaper
    PauseAt = 3
    ResumeAt = 2
    Forward = 1
    Last = 5
PROPERTY ResumesWhenLow
