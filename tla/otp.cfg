SPECIFICATION Spec
CONSTANTS
  Requests = {q1, q2}
  References = {"utr"}
  RefOf <- OnePayment
  Credit = 2
  InitWallet = 1
  Price = 1
  MaxPending = 1
  MaxMishaps = 2
  Challenges = {c1, c2, c3}
  Tasks = {t1, t2}
  MaxResends = 1
  MaxFailures = 2
SYMMETRY RowAndTaskSymmetry
INVARIANTS ChallengesPaid OneUsableCode PaymentCreditedOnce DecisionsAgree
CHECK_DEADLOCK FALSE
