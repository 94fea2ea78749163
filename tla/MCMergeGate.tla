---------------------------- MODULE MCMergeGate ----------------------------
(* Constants of MergeGate for TLC.                                          *)
EXTENDS MergeGate

Governed == [code |-> 0, prot |-> 0, policy |-> "present", trust |-> "active", ev |-> 0, raw |-> 0]

MCRoots ==
    {Governed,
     [Governed EXCEPT !.trust = "revoked"],
     [Governed EXCEPT !.policy = "absent", !.trust = "absent"]}

MCEdits ==
    {<<"code", 1>>, <<"prot", 1>>, <<"raw", 1>>}

MCDeclared ==
    {[risk |-> "L1", deps |-> TRUE, builder |-> b[1], review |-> b[2]] :
        b \in {<<"bob", TRUE>>, <<"bob", FALSE>>, <<"ann", TRUE>>}}

MCBudget ==
    [root |-> 1, edit |-> 2, evidence |-> 1, gate |-> 1, review |-> 1,
     pull |-> 1, base |-> 1]

============================================================================
