----------------------------- MODULE MCKeyboard -----------------------------
EXTENDS Keyboard, MCKeys
=============================================================================
