--------------------------- MODULE MCBootHarness ---------------------------
EXTENDS BootHarness

(* The end of phase_verify_boot(): the configuration, then the sync.       *)
MCSyncScript == <<"apply", "sync">>
=============================================================================
