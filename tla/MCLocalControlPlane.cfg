CONSTANTS
    None = None
    Sessions = {s1, s2}
    Calls = {c1, c2}
    Packets = {p1}
    Credentials = {k1}
    Contents <- MCContents
    Grants <- MCGrants
    Instants <- MCInstants
    Ttls <- MCTtls
    MinTtl = 1
    MaxTtl = 1
SYMMETRY Symmetry
VIEW WithoutAnswer
SPECIFICATION Spec
INVARIANTS RowsAuthorized ChainAgrees OneWriterPerRow
PROPERTIES WithdrawnWritesNothing AnswersAreTrue
