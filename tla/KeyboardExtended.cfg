CONSTANTS
  Codes <- MCCodes
  normal_keys <- MCNormalKeys
  extended_keys <- MCExtendedKeys
  ExtendedCodes = {116}
  Letters = {"A"}
  LSHIFT = "LSHIFT"
  CAPSLOCK = "CAPSLOCK"
  MaxWire = 3

SPECIFICATION Spec

INVARIANT ExtendedKeysAreTracked
