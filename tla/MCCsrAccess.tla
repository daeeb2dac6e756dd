---------------------------- MODULE MCCsrAccess ----------------------------
(* TLC instances of CsrAccess.  The operands lie below, across and above   *)
(* the five bits of an immediate.                                          *)
EXTENDS CsrAccess

Operands == {{}, {0, 4}, {4, 5}, {31}}

FieldValues == {{}, {0}, {0, 1}}

AllCsrs == DOMAIN csrs
=============================================================================
