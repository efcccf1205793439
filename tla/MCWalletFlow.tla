---------------------------- MODULE MCWalletFlow ----------------------------
(***************************************************************************)
(* The wallet flow and the case page on a small instance.                  *)
(***************************************************************************)
EXTENDS CasePage

NoJobs == <<>>   \* every job is created by the wallet

=============================================================================
