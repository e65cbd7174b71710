SPECIFICATION Spec
CONSTANTS
  r1 = r1
  r2 = r2
  b1 = b1
  v1 = v1
  v2 = v2
  Own <- MCOwn
  Others <- MCOthers
  Vehicle <- MCVehicle
  MaxFaults = 2
  MaxCrashes = 1
INVARIANTS
  ReportedRecordsAreKept
  UploadedOnceUnlessDisturbed
PROPERTIES
  OfflineRowsAreUploaded
