SPECIFICATION Spec
CONSTANTS
    Ids = {c1, c2}
    Layouts <- MCLayouts
    Labels <- MCLabels
    Seats <- MCSeats
SYMMETRY Symmetric
INVARIANT TypeOK
PROPERTIES ObservationIsTrue GoneMeansGone ListedIsFound
