SPECIFICATION FairSpec
CONSTANTS
    r1 = r1
    r2 = r2
    i1 = i1
    i2 = i2
    i3 = i3
    Requests = {r1}
    Switchers = {r1}
    Background = {"data", "sync"}
    Instances = {i1, i2}
    MaxRestores = 1
    MaxCrashes = 1
INVARIANTS FilesAlone LapsKept OneProducer
PROPERTIES SwapIsAtomic Resumes
