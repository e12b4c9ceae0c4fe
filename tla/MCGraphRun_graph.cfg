SPECIFICATION Spec
CONSTANT Programs <- AllPrograms
CHECK_DEADLOCK FALSE
INVARIANTS
  AcceptedSourcesLoad
  RunsEndAsWritten
  PromisedOutputsPublished
