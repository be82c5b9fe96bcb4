SPECIFICATION PackageSpec
CONSTANTS
  p1 = p1  p2 = p2  sheet = sheet  folder = folder  old = old  new = new
  Mutators <- MCMutators
  Files <- MCFiles
  Folders <- MCFolders
  Contents <- MCContents
  Editable <- MCFiles
  None = None
  Edited = Edited
  Nobody = Nobody
  NoMarker = NoMarker
  NoJournal = NoJournal
  Bounds <- MCBounds
SYMMETRY MCSymmetry
INVARIANTS ListedIsShown
PROPERTIES PublicationIsAtomic
