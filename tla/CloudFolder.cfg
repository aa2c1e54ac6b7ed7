\* Every pair of commands on one folder, with every request failing at every
\* point.  The commands end, so the system stops.
CONSTANTS
  Procs = {p1, p2}
  Commands <- MCCommands
  KeySeq <- MCKeySeq
  Folders <- MCFolders
  a = a  b = b  c = c
  v = v  w = w  huge = huge  odd = odd
  dev = dev  stg = stg
  slug = slug  other = other
  Envs = {dev, stg}
  Dev = dev
  WriteOnly = {stg}
  Values = {v, w, huge, odd}
  Huge = {huge}
  Unholdable = {odd}
  Projects = {slug, other}
  Slug = slug
  MaxBatch = 2
  Unlinked = Unlinked
  NoProject = NoProject
  NoEnv = NoEnv
SPECIFICATION Spec
SYMMETRY MCSymmetry
CHECK_DEADLOCK FALSE
INVARIANTS LinkedOrExcused DeclarationsKept
PROPERTY PushLosesNothing
