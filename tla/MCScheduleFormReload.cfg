\* One row with two times and two values, up to three versions of it.
SPECIFICATION FormSpec
CONSTANTS
  FormTimes = {1, 2}
  FormValues = {1, 2}
  MaxRowVersion = 3
INVARIANTS
  AppliedFormIsLatest
\* the form is left, and the versions are bounded
CHECK_DEADLOCK FALSE
