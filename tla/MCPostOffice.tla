---------------------------- MODULE MCPostOffice ----------------------------
(***************************************************************************)
(* Two machines with two threads and two mailboxes each, of which the      *)
(* first may be restarted: enough for MailTest with its four messages, and *)
(* for two threads of a machine inside Send at once.                       *)
(***************************************************************************)
EXTENDS MailTest

MCStarts == <<2, 1>>
=============================================================================
