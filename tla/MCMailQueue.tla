---------------------------- MODULE MCMailQueue ----------------------------
(* Instances of MailQueue for TLC; the constants are given in the cfgs. *)
EXTENDS MailQueue
=============================================================================
