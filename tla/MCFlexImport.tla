---------------------------- MODULE MCFlexImport ----------------------------
(* Two trades, so that one can be new and one not; the cron job beside one *)
(* request of the API.                                                     *)
EXTENDS FlexImport
=============================================================================
