SPECIFICATION Spec

CONSTANTS
    Responses <- MCResponses
    Expects <- MCExpects

INVARIANTS
    Verdict
    ErrorShown
    RememberedAfterChecks
