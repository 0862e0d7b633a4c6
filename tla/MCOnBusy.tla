------------------------------ MODULE MCOnBusy ------------------------------
(* Instance of OnBusy for TLC.                                             *)
EXTENDS OnBusy, OnBusySettings
=============================================================================
