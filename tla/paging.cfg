CONSTANTS
    Doc = {d1, d2, d3, d4}
    Name = {1, 2, 3}
    BatchSize = 2
    Id = {1, 2, 3}
    Title = {1, 2}
    Limit = {0, 1, 2}
    Search <- MCSearch
    EmptyIsNil = TRUE
    MaxChanges = 1
SPECIFICATION MCSpec
INVARIANTS
    TypeOK NamesComplete OwnNameServed
PROPERTIES
    OwnNameKeepsGrant PagesServed ReadingEnds
\* Startup, or the client, is done in the end.
CHECK_DEADLOCK FALSE
