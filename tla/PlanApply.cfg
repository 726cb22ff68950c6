SPECIFICATION PlanSpec
CONSTANTS
    accept = accept
    drop = drop
    uplink = uplink
    Names = {accept, drop}
    Comments = {uplink}
    Unset = Unset
    Secrecy <- NoneOrComment
    Tables <- OneOrTwoRows
    MaxId = 3
    FullAt = 12
    MaxChanges = 3
    MaxWrites = 3
    MaxRollbacks = 2
    None = None
    Plans <- FewPlans
    MaxApplies = 2
    MaxByHand = 1
INVARIANT PlanTypeOK
INVARIANT RollbackRestores
INVARIANT ReplacedRowsBlock
INVARIANT AppliedAsMeant
PROPERTY PreviewHonoured
CHECK_DEADLOCK FALSE
