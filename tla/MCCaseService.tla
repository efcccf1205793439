--------------------------- MODULE MCCaseService ---------------------------
(* Three requests: retries with the same payment, a second request under a  *)
(* case's id, a malformed one, and two ways to name a job on chain.         *)
EXTENDS CaseService

MCRaw(job) ==
    [deal_id |-> 1, parties |-> <<[role |-> "ok", country |-> "ok", state |-> "absent"]>>,
     activity |-> "ok", amount_usdc |-> "ok", monthly_volume_usdc |-> "absent", evidence |-> "ok",
     settlement |-> [party |-> "ok", payee |-> "ok", amount_usdc |-> "ok"],
     expires_at |-> "ok", job_id |-> job]
MCBody(case, variant) == [case |-> case, variant |-> variant, job |-> case, raw |-> MCRaw("absent")]
MCExternal(case) == [case |-> case, variant |-> "x", job |-> "j", raw |-> MCRaw("ok")]
MCBodies ==
    [v |-> MCBody("c1", "v"), w |-> MCBody("c1", "w"), x |-> MCExternal("c2"),
     y |-> MCExternal("c1"), bad |-> [MCBody("c1", "v") EXCEPT !.raw.expires_at = "bad"]]
MCSend(client, cred, body) == [client |-> client, cred |-> cred, body |-> body]
MCPlans ==
    {<<MCSend("a", "p1", "v"), MCSend("b", "p2", "v"), MCSend("b", "p1", "v")>>,
     <<MCSend("a", "p1", "v"), MCSend("b", "none", "x"), MCSend("c", "p2", "y")>>,
     <<MCSend("a", "p2", "bad"), MCSend("a", "p1", "v"), MCSend("a", "p1", "w")>>}
MCCases == {"c1", "c2"}
MCExternalJobs == {"j"}
=============================================================================
