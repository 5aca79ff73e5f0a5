SPECIFICATION FairSpec
CONSTANTS
  hub = hub
  na = na
  nb = nb
  nc = nc
  ca = ca
  cb = cb
  cc = cc
  Node = {hub, na, nb}
  Call = {ca, cb}
  From <- FromLeaf
  To <- ToHub
  Count <- Double
  Fixed = {}
  Early = {hub, na}
  Multi = {hub}
  Mortal = {hub}
  Nil = Nil
INVARIANT TypeOK
INVARIANT NoCascade
INVARIANT Mesh
INVARIANT NoSelfLink
PROPERTY KnownNotDialled
PROPERTY Settles
CHECK_DEADLOCK FALSE
