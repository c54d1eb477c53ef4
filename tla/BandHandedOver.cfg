\* A founded band of three, one of whom deletes the account.
CONSTANTS
    BandTxs = {x1, x2}
    People = {u1, u2, u3}
    Bands = {band}
    Invites = {i1}
    MemberLimit = 3
    MembershipLimit = 1
    InviteUses = 2
    MaxStaffActs = 0
SPECIFICATION Spec
SYMMETRY Symmetry
\* Everybody may have left and every bound used up.
CHECK_DEADLOCK FALSE
INVARIANT
    BandHandedOver
