--------------------------- MODULE MCReminderWin ---------------------------
(* Small instances of ReminderWin; the configuration gives the constants.    *)
EXTENDS ReminderWin
=============================================================================
