CONSTANTS
    ByteBits = 3
    Width = 2
SPECIFICATION Spec
INVARIANT CIDRRangeExact
