SPECIFICATION Spec

CONSTANTS
    N = 3
    suite = suite
    twins = twins
    number = number
    extra = extra
    nulls = nulls
    text = text
    Absent = Absent
    NotRead = NotRead
    Contents <- MCContents
    SchemaValid <- MCSchemaValid
    Named <- MCNamed
    Decodable <- MCDecodable
    NullCases <- MCNullCases
    Arguments <- MCArguments
    MaxChanges = 2

INVARIANTS
    RunsWhatIsValid
    NoFileLost
    PanicIsRace
