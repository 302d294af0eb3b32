\* A query that names a capacity with its unit.
CONSTANTS
    Articles <- MCArticles
    Scenarios <- NoisyScenarios
    Limit = 4
SPECIFICATION Spec
INVARIANT CapacityNoiseKeepsTheFamily
