SPECIFICATION Spec
CONSTANTS
    Disk <- MCDisk
    StdlibDir <- MCStdlibDir
    ImportDirs <- MCImportDirs
    Deps <- MCDeps
    Cwd <- MCCwd
    Root <- MCRoot
    Projects <- MCProjects
    NoAlias = NoAlias
    Unparsable = Unparsable
INVARIANTS
  EachFileOnce
  TakesWhatIsNeeded
  FlatteningKeepsMeaning
