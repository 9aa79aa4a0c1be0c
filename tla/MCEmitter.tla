----------------------------- MODULE MCEmitter -----------------------------
EXTENDS Emitter
=============================================================================
