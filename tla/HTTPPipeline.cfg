SPECIFICATION Spec
CONSTANTS
  NULL = NULL
INVARIANTS TypeOK AnswerTruthful HeadersFitStatus LoggedAsSent
