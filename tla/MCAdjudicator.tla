--------------------------- MODULE MCAdjudicator ---------------------------
(* Two runs, two items; the wires cover each repair of validate.ts. *)
EXTENDS Adjudicator

MCRuns == {"r1", "r2"}
MCItemOrder == <<"i1", "i2">>
\* The model's settings: the effort decides whether a temperature is sent.
Set(effort) == [model |-> "reasoning", effort |-> effort, temperature |-> "zero"]
Value(depth, matches) == [at |-> "value", depth |-> depth, index |-> 0, matches |-> matches]
\* Nothing the walk comes to matches: the match lies too deep.
Plain == {Value(1, {}), Value(9, {"whole", "left"})}
Injected == {Value(2, {"whole", "left"})}
\* The match is in the part that is cut: the same fields as Plain, and a flag.
Cut == {Value(1, {"whole"})}
\* A rule matches only where the cut ends a word.
CutApart == {Value(1, {"left"})}
Ctx(mode, material, effort) ==
    [mode |-> mode, material |-> material, settings |-> Set(effort)]
MCContexts ==
    [r1 |-> {Ctx("cache_first", Plain, "none")},
     r2 |-> {Ctx("cache_first", Cut, "none"), Ctx("cache_only", Plain, "none"),
             Ctx("record", Injected, "low"), Ctx("live", CutApart, "none")}]
MCVerdictStates == {"confirmed_in_scope", "gray_interpretive", "gray_unknown"}
MCSources == [i \in {"i1", "i2"} |-> {"s_" \o i}]
MCWires ==
    {[item_id |-> "i1", verdict |-> "gray_interpretive", gray_type |-> "interpretive",
      source_refs |-> <<"s_i1">>, risk_flags |-> <<>>],
     [item_id |-> "i2", verdict |-> "confirmed_exempt", gray_type |-> "data",
      source_refs |-> <<"s_i1", "s_i2">>, risk_flags |-> <<"a", "b">>]}
MCStatuses == {0, 400, 401}
=============================================================================
