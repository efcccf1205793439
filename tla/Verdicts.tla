------------------------------ MODULE Verdicts ------------------------------
(* The adjudicator's vocabulary, shared by adjudication and routing. *)

Verdict == {"confirmed_in_scope", "confirmed_exempt", "gray_data",
            "gray_interpretive", "unverifiable"}
GrayType == {"data", "interpretive", "none"}

\* Only the two gray verdicts carry a gray type.
GrayTypeFor(verdict) ==
    CASE verdict = "gray_data" -> "data"
      [] verdict = "gray_interpretive" -> "interpretive"
      [] OTHER -> "none"
=============================================================================
