\* Two people, five records, one day.
CONSTANTS
  u1 = u1
  u2 = u2
  Users <- MCUsers
  MaxDay = 0
  MaxRecords = 5
SPECIFICATION Spec
SYMMETRY MCSymmetry
PROPERTY FirstEntryStays
