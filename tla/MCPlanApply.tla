----------------------------- MODULE MCPlanApply -----------------------------
(* Instances of SafeSession and PlanApply for TLC: a menu of one rule with a *)
(* comment and one without, or of one disabled rule, and no plan or one of    *)
(* a few that create, change, delete and miss rows, by id and by comment.     *)
EXTENDS PlanApply

CONSTANTS accept, drop, uplink

OneOrTwoRows ==
    {<<[name |-> accept, comment |-> uplink, disabled |-> "false"],
       [name |-> drop, comment |-> Unset, disabled |-> "false"]>>,
     <<[name |-> accept, comment |-> Unset, disabled |-> "true"]>>}

NoneOrComment == {{}, {"comment"}}

Step(op, id, comment, props) == [op |-> op, id |-> id, comment |-> comment, props |-> props]

New == Step("create", None, None, [name |-> accept])
NewUplink == Step("create", None, None, [name |-> drop, comment |-> uplink])
Rename == Step("set", 1, None, [name |-> drop])
DisableUplink == Step("disable", None, uplink, NoWords)

FewPlans ==
    {[path |-> "filter", steps |-> s] : s \in
        {<<>>,
         <<Rename>>,
         <<DisableUplink, New>>,
         <<Step("delete", 1, None, NoWords), NewUplink>>,
         <<Step("create", 1, None, [name |-> drop])>>}}
    \cup {[path |-> "nat", steps |-> <<DisableUplink>>]}
=============================================================================
