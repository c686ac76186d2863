\* Two people, five records, two midnights: somebody stays overnight, the
\* building opens twice in a day, saves fail and the process restarts.
CONSTANTS
  u1 = u1
  u2 = u2
  Users <- MCUsers
  MaxDay = 2
  MaxRecords = 5
SPECIFICATION Spec
SYMMETRY MCSymmetry
INVARIANTS
  TypeOK
  StateSound
  AnnouncedIsSaved
PROPERTY EntryTimeKept
