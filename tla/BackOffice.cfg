SPECIFICATION Spec
CONSTANTS
    User = {u1, u2}
    Prop = {p1, p2}
    Code = {k1, k2}
    Label = {"1"}
    Name = {"a"}
    PropStatus = {"DRAFT", "ACTIVE"}
    Roles = {"HOTEL_OWNER", "HOTEL_MANAGER"}
    Call = {c1, c2}
    Faults = {"down", "lost", "crash", "cut"}
SYMMETRY Symmetry
VIEW View
CONSTRAINTS FewRows OneField
INVARIANTS
    BackOfficeTypeOK
    TokensAreBacked
    OwnerCanReach
PROPERTIES
    OnlyByStaff
    UnaskedIsKept
