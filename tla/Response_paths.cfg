\* Every request ends, and nothing happens after it but the end of calls and
\* rebuilds, which are bounded: the system may stop.
SPECIFICATION ResponsesSpec
CONSTANTS
  None = None
  SwarmPolicy <- MCPolicy
  FirstEndpoint <- MCFirstEndpoint
  Price <- MCPrice
  Plans <- MCPlans
  MaxRebuilds = 1
  EstimatedCharge = 9
  MaxChunk = 3
  Keep = 2
  Answers <- MCAnswers
  Inputs <- MCInputs
INVARIANTS
  InDependencyOrder
  Charged
  Delivered
  Conveyed
PROPERTY Ended
CHECK_DEADLOCK FALSE
