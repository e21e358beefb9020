SPECIFICATION FairSpec
CONSTANT Device = {d1, d2, d3}
INVARIANTS OneDevice ClientIsQuiet NothingLeft
PROPERTIES FadesIn ReleasedByOwner CallsReturn
