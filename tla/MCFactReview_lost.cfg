SPECIFICATION Spec
CONSTANTS
    a = a
    b = b
    old = old
    new = new
    Null = Null
    Identities <- MCIdentities
    Versions <- MCVersions
    Yields <- MCYields
    Measured <- MCMeasured
    Scanned <- MCScanned
    Valued <- MCValued
    Reviewers = {r1}
    Values = {x}
    Notes = {why}
    Loaders = {l1}
    Overlap = TRUE
    MaxRows = 3
    MaxRevisions = 1
PROPERTIES
    DecisionIsKept
