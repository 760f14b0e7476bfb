CONSTANTS
    scene = scene  tool = tool  other = other
    MaxClicks = 4
    Releases = {scene, tool}
    Enabled = {scene, tool}
    Html = {tool}
    NoRelease = NoRelease
    Concurrent = 1
    Requests = 1
    MaxChanges = 1
SPECIFICATION WorkbenchSpec
INVARIANT OneFrame
PROPERTY ShownIsLastAsked NothingAfterClose FramesEnd
CHECK_DEADLOCK FALSE
