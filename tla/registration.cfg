SPECIFICATION Spec
CONSTANTS
  NoOne = NoOne
  Requests = {r1, r2, r3}
  Emails = {ann, bob}
  Names = {acme, pine}
  MaxFaults = 1
INVARIANTS RegistrationInv AnswersAreTrue EmptyOrganizationsAreReported
CHECK_DEADLOCK FALSE
