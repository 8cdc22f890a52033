SPECIFICATION Spec
CONSTANTS
  n1 = n1  n2 = n2
  b1 = b1  b2 = b2  b3 = b3
  c1 = c1  c2 = c2
  h1 = h1  h2 = h2  h3 = h3
  Clients = {c1, c2}
  Names = {n1, n2}
  NameLen <- MCNameLen
  Binders = {b1, b2}
  Handles = {h1, h2}
  Masks <- OneMask
  Uids <- TwoUids
  MayRegister <- AnyName
  ForeignAdds = FALSE
  NoHandle = NoHandle  NoBinder = NoBinder  NoName = NoName
SYMMETRY Symmetry
PROPERTY NoticeClearsOnlyTheDead
