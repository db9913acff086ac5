SPECIFICATION FairSpec
CONSTANTS
  BookingIds = {b1}
  Phones = {}
  Reqs = {r1, r2}
  OTP_TTL = 2
  OTP_MAX_TRIES = 2
  OTP_MAX_RESEND = 1
  MaxCodes = 3
INVARIANTS TypeOK GuessesBounded ResendsBounded
PROPERTIES LockoutEnds ImplementsOneTimeCode
