------------------------------ MODULE MCMenuBar ------------------------------
EXTENDS MenuBar

MCModes == {"active", "scan_paused"}
==============================================================================
