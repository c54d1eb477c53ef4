\* One account with two tabs that is deleted while a page may still be paid.
CONSTANTS
    Tabs = {t1, t2}
    Prices = {q1, q2}
    MaxPages = 2
    MaxGeneration = 1
    MaxCheckoutErrors = 1
SPECIFICATION CheckoutSpec
\* The account may be gone and every bound used up.
CHECK_DEADLOCK FALSE
INVARIANT
    DeletedNotCharged
