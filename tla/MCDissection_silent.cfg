CONSTANTS
  AppNames <- MCAppNames
  Upper <- MCUpper
  Spelling <- MCSpelling
  Cases <- MCCases

SPECIFICATION DissectionSpec
INVARIANTS BlocksAllTraffic
