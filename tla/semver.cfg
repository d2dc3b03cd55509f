SPECIFICATION MCSpec
CONSTANTS
  Targets <- MCTargets
  Surface = "surface"
  Shapes <- MCShapes
  Absent = "absent"
  Impact <- MCImpact
  Keeps <- MCKeeps
  PartShapes <- MCPartShapes
  Versions <- MCVersions
  Texts <- MCTexts
  Denotes <- MCDenotes
  Rebuildable = {"one", "two", "any"}
  Literals = {"one", "two"}
  MaxArguments = 2
  Histories <- MCHistories
  DocumentKinds <- MCKinds
  SurfaceHistories <- MCSurfaceHistories
  EntryPointsLeave = FALSE
INVARIANTS
  TypeOK
  ReleasePasses
  BaselinesAgree
PROPERTIES
  CompatibleKeepsUsers
  CompatibleKeepsSurface
  SemverKept
