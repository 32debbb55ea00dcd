SPECIFICATION OrderlySetupSpec
CONSTANTS
  r1 = r1
  r2 = r2
  c1 = c1
  c2 = c2
  n1 = n1
  n2 = n2
  Requests <- TwoRequests
  Customers <- TwoCustomers
  Numbers <- TwoNumbers
  Parts = 2
  MaxServices = 2
  FormModes = {"i", "u", "unchanged", "s"}
  SetupFaults = {"service", "die"}
SYMMETRY SubmissionSymmetry
INVARIANT SetupTypeOK
 
 
 
