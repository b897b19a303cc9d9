CONSTANTS
  c1 = c1
  c2 = c2
  tight = tight
  loose = loose
  q1 = q1
  q2 = q2
  w1 = w1
  w2 = w2
  m1 = m1
  Callers = {c1, c2}
  Parent = Parent
  Candidate = Candidate
  Patches = {tight, loose}
  BasePolicy = BasePolicy
  ParentExp = ParentExp
  ShadowExp = ShadowExp
  ProposalIds = {q1, q2}
  ValidationIds = {w1}
  PromotionIds = {m1}
  Reviews <- MCReviews
  GateResults <- MCGateResults
  NoFile = NoFile
  MaxCutoff <- MCMaxCutoff
SPECIFICATION Spec
SYMMETRY MCSymmetry
CHECK_DEADLOCK FALSE
INVARIANT PromotionIsEarned
PROPERTY ArtifactsAreImmutable
