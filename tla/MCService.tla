----------------------------- MODULE MCService -----------------------------
(***************************************************************************)
(* Executables for Service: two whose names have every character that JSON *)
(* escapes.                                                                *)
(***************************************************************************)
EXTENDS Service

shell == <<Quote, Control>>
other == <<Backslash, Delete>>

Texts == {shell, other}
DeniedTexts == {shell}

=============================================================================
