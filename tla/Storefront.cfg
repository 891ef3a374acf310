SPECIFICATION Spec
CONSTANTS
    Prop = {"p", "q"}
    RType = {"p1", "q1", "p2"}
    Named <- Namesakes
    Home <- Rotating
    Rate <- Ascending
    Beds <- Widening
    Units <- Scarce
    LastDay = 2
    Horizon = 2
    ListDefault = 2
    ListMax = 2
    SweepLimit = 3
    SizeDefault = 2
    SizeMax = 1
    MaxSales = 1
INVARIANTS
    StorefrontTypeOK
    SearchIsExact
PROPERTIES
    SweepProvides
    BooksAreKept
    HorizonMoves
