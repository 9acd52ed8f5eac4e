SPECIFICATION Spec
CONSTANTS
    DataBits = 2
    NoVerdict = NoVerdict
INVARIANT LastBitsChecked
