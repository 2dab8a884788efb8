CONSTANTS
  offset_gaps = offset_gaps
  events = events
  hourly = hourly
  Export = {offset_gaps, events, hourly}
  Order <- JobOrder
  RowRunExport = {events, hourly}
  MaxJobs = 4
SPECIFICATION ExportsSpec
INVARIANTS
  ManifestResolves
  OpenRunKept
  
CHECK_DEADLOCK FALSE
