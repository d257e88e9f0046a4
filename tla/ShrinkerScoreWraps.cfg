\* An intent that is left registered until weight and urgency exceed INT_MAX.
CONSTANTS
    IntMax = 8191
    Deadlines = {0, 5000}
    Times = {0, 70000, 80000}
    MaxIntents = 2
    None = None
SPECIFICATION Spec
PROPERTY MostReclaimableFirst
