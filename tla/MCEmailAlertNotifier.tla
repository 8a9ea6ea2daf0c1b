------------------------ MODULE MCEmailAlertNotifier ------------------------
(* EmailAlertNotifier for TLC: two mails can wait (64 in the code) and four  *)
(* assets are discovered, so that the queue fills up while a mail is sent.   *)
EXTENDS EmailAlertNotifier

CONSTANTS m1, m2, m3, m4
=============================================================================
