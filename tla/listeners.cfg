CONSTANTS
  Mounts = {m1, m2}
  Unknown = Unknown
  MaxRequests = 2
SPECIFICATION Spec
INVARIANT LabelAndVerbAgree
PROPERTY StaleCountFades
