---------------------------- MODULE MCDashboard -----------------------------
(* Values for the constants of Dashboard.                                  *)
EXTENDS Dashboard

MCLight == Loads \cup {Tokens}
=============================================================================
