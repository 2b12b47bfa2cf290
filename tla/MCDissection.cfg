CONSTANTS
  AppNames <- MCAppNames
  Upper <- MCUpper
  Spelling <- MCSpelling
  Cases <- MCCases

SPECIFICATION DissectionSpec
INVARIANTS NoReadPastFrame NoReadPastEnd ParsesWhatIsThere FindsName CutHelloShowsNothing NeverPartOfName CutRequestShowsPart VerdictFollowsRules
PROPERTIES Returns
