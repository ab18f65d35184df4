SPECIFICATION Spec
CONSTANTS
    Thieves = {h1, h2}
    Capacity = 2
    MaxTasks = 5
SYMMETRY Symmetry
PROPERTIES
    ImplementsDeque
