---------------------------- MODULE MCPrepFiles ----------------------------
(* Tuples and edaBits, with tapes that use all or some of what they        *)
(* declare.                                                                *)
EXTENDS PrepFiles

MCHelpers == 1 .. 2
MCDeclared == 1 .. 3
MCSetups == [edabits : BOOLEAN, exact : BOOLEAN]
ExactSetups == [edabits : BOOLEAN, exact : {TRUE}]
============================================================================
