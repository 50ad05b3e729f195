SPECIFICATION Spec
CONSTANTS
 Calls = {c1, c2}
 None = None
 Match = Match
SYMMETRY Symmetry
CHECK_DEADLOCK FALSE
INVARIANTS Consistent
PROPERTIES EvidenceStands EvidenceNeverLowers AnswersAreAsked NeverTakesAnothersBrowser
PROPERTIES  SettledStays StableWasReadTwice
