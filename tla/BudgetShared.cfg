\* Two processes, three attempts in a lifetime (and one identifier more), a
\* clock that is set freely.  Minute 2, hour 4 of 0..4: a window can be full,
\* half expired and expired.
SPECIFICATION Spec
CONSTANTS
  p1 = p1  p2 = p2  o1 = o1  o2 = o2
  i1 = i1  i2 = i2  i3 = i3  i4 = i4
  Procs <- BothProcs
  Owners <- BothOwners
  Ids <- FourIds
  Attempts = 3
  GlobalPerMinute = 2
  VisitorPerHour = 2
  Minute = 2
  Hour = 4
  MaxTime = 4
  Nil = Nil
  Torn = Torn
SYMMETRY Symmetry
INVARIANTS WithinAllowance OneInFlight WindowsRespected HealthyUnlessTorn
PROPERTIES OrphanBlocks
