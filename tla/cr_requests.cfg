SPECIFICATION Spec
CONSTANTS
  Client = {c1, c2}
  Dirs <- MCDirs
  NamePrefix <- MCNamePrefix
  File = "f"
  MaxNotes = 1
SYMMETRY Symmetry
INVARIANTS TypeOK ListsAgree TreeIsMinimal
PROPERTIES HeardOnce ImplementsRegistrations
