---------------------------- MODULE MCEscalation ----------------------------
(* Categories and payloads for the runs of Escalation.                      *)
EXTENDS Escalation

(* One category for each way evaluate_escalation treats them.               *)
EachTreatment ==
    {"commit", "merge", "high_risk_operation", "public_release", "operational_action",
     "product_decision", "uncertainty", "checkpoint", "integrity_mismatch", "unknown"}

TwoPayloads ==
    {[category |-> "high_risk_operation", effects |-> {"production"}],
     [category |-> "public_release", effects |-> {"public_publish"}]}
=============================================================================
