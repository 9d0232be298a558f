SPECIFICATION Spec
CONSTANTS
    x = x
    y = y
    z = z
    alloc = alloc
    Vars = {x, y, z}
    InstanceOf <- OneInstance
    Instances = 2
    ListFrames = {alloc}
    FrameSize <- Sizes
    HeaderSize = 2
    CountMod = 8
    MaxVersion = 2
    MaxQueue = 2
INVARIANTS
    PacketsReadBack NothingLost
