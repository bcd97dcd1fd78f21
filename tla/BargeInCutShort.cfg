CONSTANTS
    s1 = s1
    s2 = s2
    d1 = d1
    d2 = d2
    d3 = d3
    NoStream = NoStream
    Stream <- MCStream
    OutStream <- MCOutStream
    MaxInbox = 2
    LinkDrops = FALSE
    PipelineFaults = FALSE
SPECIFICATION Spec
PROPERTY
    BargeInUploadKept
