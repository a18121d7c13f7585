CONSTANTS
    l1 = l1
    l2 = l2
    l3 = l3
    None = None
    Emails = {e1, e2, e3}
    Logins = {l1, l2, l3}
    Preferred <- MCPreferred
    MaxUsers = 3
    TokenSlots = {1}
    GlobalNames = {ci}
    UserLists <- MCUserLists
SPECIFICATION Spec
INVARIANTS IInv OneUserPerName AdminRemains ActsAsSelf
PROPERTIES OwnersRemain
SYMMETRY MCSymmetry
