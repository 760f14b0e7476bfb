CONSTANTS
    scene = scene  tool = tool  other = other
    MaxClicks = 5
    Releases = {tool, other}
    Enabled = {tool}
    Html = {tool, other}
    NoRelease = NoRelease
    Concurrent = 1
    Requests = 1
    MaxChanges = 0
SPECIFICATION WorkbenchSpec
INVARIANT RunsWhatWasReviewed
CHECK_DEADLOCK FALSE
