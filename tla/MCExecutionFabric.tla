-------------------------- MODULE MCExecutionFabric --------------------------
(* Small instances of ExecutionFabric: sightings old and good, fresh and    *)
(* poor, of an unknown health or dated ahead; answers of every form.        *)
EXTENDS ExecutionFabric

Sight(health, score, age, capabilities, receipted) ==
    [capabilities |-> capabilities, health |-> health, score |-> score, private |-> TRUE,
     exact |-> TRUE, receipts |-> receipted, readback |-> TRUE, age |-> age, cost |-> 50, latency |-> 50]
MCSightings == {Sight("healthy", 100, 3, {"ci"}, TRUE), Sight("unknown", 10, 0, {"ci"}, TRUE),
                Sight("healthy", 90, 0, {"ci"}, FALSE), Sight("healthy", 90, 0, {}, TRUE),
                Sight("odd", 90, -1, {"ci"}, TRUE), Sight("degraded", 100, 0, {"ci"}, TRUE)}
MCWorkloads == {[capabilities |-> {"ci"}, private |-> TRUE, exact |-> TRUE,
                 receipts |-> needed, readback |-> FALSE] : needed \in BOOLEAN}
Said(form, ok, state, error, proof) ==
    [form |-> form, ok |-> ok, state |-> state, error |-> error, receipt |-> proof, readback |-> proof]
MCReplies == {Said("raised", "none", "none", FALSE, FALSE), Said("word", "none", "unconfirmed", FALSE, FALSE),
              Said("word", "none", "failed", FALSE, FALSE), Said("mapping", "none", "timed_out", FALSE, FALSE),
              Said("mapping", "true", "none", FALSE, FALSE),
              Said("mapping", "true", "success", FALSE, TRUE), Said("mapping", "none", "pending", TRUE, FALSE),
              Said("mapping", "true", "none", TRUE, FALSE), Said("mapping", "false", "success", FALSE, TRUE)}
=============================================================================
