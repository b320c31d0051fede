CONSTANTS
  Emails = {root, e1}
  Root = root
  Forgetful = {e1}
  AskedRoles = {"admin", "viewer", "owner"}
  Calls = {q1, q2}
  None = None
SPECIFICATION LiveSpec
INVARIANT TypeOK
PROPERTY AdminsRemain
PROPERTY RightsAreGranted
PROPERTY Onboarding
PROPERTY RightsEnd
