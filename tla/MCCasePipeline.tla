--------------------------- MODULE MCCasePipeline ---------------------------
(* Two rubric items and every verdict, condition and list of constraints. *)
EXTENDS CasePipeline

MCRubric == <<"i1", "i2">>
MCEvidence == {{}}
Checked == [result |-> "PASS", basis |-> "caller_assertion"]
Response(overall, blocked, escalated, evaluated) ==
    [module_id |-> "us-msb", version |-> "v1", constrained |-> "us-msb", deal_id |-> "case",
     overall |-> overall, blocked |-> blocked, escalated |-> escalated, evaluated |-> evaluated,
     checks |-> {Checked}, royalty_bps |-> 1000, maintainer_wallet |-> "lab",
     unreadable |-> {}]
Passing == Response("PASS", {}, {}, 1)
Paying(data) == [status |-> 200, transaction |-> "r1", amount |-> 1000, data |-> data]
MCAnswers ==
    {Paying(Response(overall, {}, {}, evaluated)) : overall \in CheckStatus, evaluated \in 0..1}
    \union {Paying(Response(overall, blocked, escalated, 1)) :
            overall \in CheckStatus, blocked \in {{}, {"c1"}}, escalated \in {{}, {"c2"}}}
    \union {[Paying(Passing) EXCEPT !.amount = 3],
            Paying([Passing EXCEPT !.maintainer_wallet = "zero"]),
            [Paying(Passing) EXCEPT !.status = 402],
            [Paying(Passing) EXCEPT !.transaction = ""],
            [Paying(Passing) EXCEPT !.transaction = "blank"],
            Paying([Passing EXCEPT !.deal_id = "another"]),
            Paying([Passing EXCEPT !.module_id = "uk-msb"]),
            Paying([Passing EXCEPT !.checks = {}]),
            Paying([Passing EXCEPT !.unreadable = {"evidence_hash"}])}
MCModuleIds == {"us-msb", "uk-msb"}
MCBalances == {0, 2000000}
MCRates == {[platformFeeBP |-> 0, evaluatorFeeBP |-> 0],
            [platformFeeBP |-> 250, evaluatorFeeBP |-> 333]}
MCConfigs ==
    {NoMaterial,
     [client |-> "wallet", provider |-> "expert", evaluator |-> "verifier"],
     [client |-> "expert", provider |-> "expert", evaluator |-> "verifier"]}
Source(version) ==
    <<[module_id |-> "us-msb", version |-> version, rules_file |-> "rules", rules_hash |-> "none"]>>
Registry == [citelySigners |-> {"desk"}, moduleAttesters |-> {"lab"}]
Manifest(version) == SignAttestationSource(Source(version), "lab")
MCDeployments ==
    {[signer |-> "desk", source |-> Source("v1"), manifest |-> Manifest("v1"),
      registry |-> Registry],
     [signer |-> "desk", source |-> Source("v0"), manifest |-> Manifest("v0"),
      registry |-> Registry],
     [signer |-> "desk", source |-> Source("v0"), registry |-> Registry,
      manifest |-> [Manifest("v0") EXCEPT ![1].version = "v1"]],
     [signer |-> "other", source |-> Source("v1"), manifest |-> Manifest("v1"),
      registry |-> Registry]}
MCSettlements ==
    {[party |-> "seller", payee |-> "seller", amount |-> 1],
     [party |-> "approves the payment", payee |-> "seller", amount |-> 1]}
MCAddresses == {"seller", "citely", "broker", "desk", "other"}
OtherLeg(payee, amount) ==
    [party |-> payee, payee |-> payee, amount |-> amount, condition |-> "PASS",
     confidence |-> "high", escalation |-> NoMaterial,
     basis |-> <<[item_id |-> "i1", verdict |-> "confirmed_exempt"]>>]
Other(legSeq) ==
    SignSa(BuildSaBody("case", "job", 1, [module_id |-> "us-msb", version |-> "v1"], legSeq, 1),
           "desk")
MCOtherSas ==
    {Other(<<OtherLeg("seller", 1), OtherLeg("citely", 1)>>),
     Other(<<OtherLeg("seller", 1), OtherLeg("broker", 1)>>),
     Other(<<OtherLeg("seller", 1), OtherLeg("not an address", 1)>>),
     Other(<<OtherLeg("seller", 1), [OtherLeg("broker", 1) EXCEPT !.condition = "SETTLE"]>>)}
MCPolicies ==
    {[trustedIssuers |-> {"desk"}, neverPayTo |-> {"citely"}, maxLeg |-> 1, maxTotal |-> 2,
      requiredModules |-> {}]}
=============================================================================
