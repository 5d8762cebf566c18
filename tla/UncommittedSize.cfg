SPECIFICATION Spec
CONSTANTS
  Limits <- MCLimits
  Payloads <- MCPayloads
  MaxTail = 8
  UintSize = 32
INVARIANTS
  TypeOK
  NeverOverestimates
  OvershootIsOneProposal
