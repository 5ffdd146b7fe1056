CONSTANTS
    i1 = i1
    i2 = i2
    m1 = m1
    m2 = m2
    n1 = n1
    n2 = n2
    NoMac = NoMac
    NoNet = NoNet
    Ifaces <- MCIfaces
    Macs <- MCMacs
    Nets <- MCNets
    MaxEvents = 2
    MaxFailures = 1
    ResyncEnabled = TRUE
    FilterByIPPool = TRUE
SPECIFICATION Spec
SYMMETRY MCSymmetry
PROPERTY NoSpuriousOutOfSync
