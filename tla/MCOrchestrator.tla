--------------------------- MODULE MCOrchestrator ---------------------------
EXTENDS Orchestrator

NoSkips   == {{}}
SomeSkips == {{}, {"verify"}, {"addon"}}
Reinstall == {{}, {"prepare", "install"}}
=============================================================================
