CONSTANTS
    a = a
    slash = slash
    pns = pns
    pname = pname
    NoNAD = NoNAD
    NilLabels = NilLabels
    NoLabel = NoLabel
    Letters <- MCLetters
    Slash = slash
    MaxLen = 3
    Namespaces <- MCNamespaces
    NadKeys <- MCNadKeys
    PoolNs = {pns}
    PoolNames = {pname}
SPECIFICATION Spec
INVARIANT ResolveAsSpecified
