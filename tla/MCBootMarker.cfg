SPECIFICATION Spec
CONSTANTS
    Setups <- Agents
    MaxContainers = 1
    MaxBoots = 1
CHECK_DEADLOCK FALSE
PROPERTIES
    MarkerEarned
