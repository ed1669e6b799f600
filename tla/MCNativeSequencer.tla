--------------------------- MODULE MCNativeSequencer ---------------------------
EXTENDS NativeSequencer
=============================================================================
