SPECIFICATION Spec
CONSTANTS
  hub = hub
  na = na
  nb = nb
  nc = nc
  ca = ca
  cb = cb
  cc = cc
  Node = {hub, na, nb, nc}
  Call = {ca, cb, cc}
  From <- FromLeaf
  To <- ToHub
  Count <- Single
  Fixed = {}
  Early = {hub, na, nb, nc}
  Multi = {}
  Mortal = {}
  Nil = Nil
CHECK_DEADLOCK FALSE
INVARIANT Mesh
