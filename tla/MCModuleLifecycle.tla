------------------------- MODULE MCModuleLifecycle -------------------------
EXTENDS ModuleLifecycle
=============================================================================
