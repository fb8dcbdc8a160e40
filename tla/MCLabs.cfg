SPECIFICATION LabsSpec
CONSTANTS
    Producer = {p1, p2}
    Consumer = {c1, c2, c3}
    Produced = 3
    BufferSize = 2
    LINES_COUNT = 3
    LINE_LENGTH = 2
    COLUMNS = 3
    ROWS    = 3
    MAX_ROWS_PER_THREAD = 2
    PoolSize = 2
    NONE = NONE
    definition <- MCDefinition
    Worker = {w1, w2}
    Tasks  = 4
INVARIANTS SlotsApart LinesWhole ResultsRight
PROPERTIES FirstInFirstOut AllEnd
CHECK_DEADLOCK FALSE
