SPECIFICATION Spec
CONSTANTS
  ObjectFiles <- MCObjectFiles
  MaxObjects = 3
  EntryName = "main"
  SectionAlignment = 16
  AllowUnresolved = TRUE
  ImpNames <- MCImpNames
  ImpBase <- MCImpBase
  Libraries <- MCLibraries
  Dlls <- MCDlls
  NameBytes = 5
  ImageBase = 1048576
  PeAlignment = 4096
  FileAlignment = 512
  Int32 = 16384
  Word32 = 65536
INVARIANTS
  ImageLayoutSound
  ImportTablesSound
  ImportsExactlyMissing
  RelocationsHit
  BytesWrittenOnce
CHECK_DEADLOCK FALSE
