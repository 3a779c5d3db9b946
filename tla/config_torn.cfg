CONSTANTS
    w1 = w1  w2 = w2  virustotal = virustotal  allow_egress = allow_egress
    v1 = v1  v2 = v2  i1 = i1  i2 = i2  i3 = i3  i4 = i4
    Writer = {w1, w2}
    Service = {virustotal}
    Setting = {allow_egress}
    Value = {v1, v2}
    NoValue = NoValue
    Inode = {i1, i2, i3, i4}
    FirstContent <- SoundFiles
    ReadErrors = FALSE
SPECIFICATION Spec
PROPERTY SavedWhole
