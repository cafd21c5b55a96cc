SPECIFICATION Spec
CONSTANTS
    Wlan = wlan
    Usb = usb
    Wans = {w1,w2}
    Fams = {"v4"}
    NoIf = none
    OneUpstream = TRUE
    MaxChanges = 2
    MaxDriver = 1
    MaxQueue = 1
CHECK_DEADLOCK FALSE
SYMMETRY WansAlike
INVARIANTS WanUpIsTrue  InStepWithKernel
