-------------------------------- MODULE LcdMC --------------------------------
(***************************************************************************)
(* The display with three columns: a text of full lines, one of short ones, *)
(* one with an empty line, and those of MENU_SAUVEGARDE.                   *)
(***************************************************************************)
EXTENDS LcdI2c

MCTexts       == {<<<<"a", "b", "a">>, <<"b", "b", "b">>>>,
                  <<<<"b">>, <<"a", "b">>>>,
                  <<<<"b", "a">>, <<>>>>}
MCWelcome     == <<<<"a", "a", "a">>, <<"b">>>>
MCSaveText    == <<<<"b", "b">>, <<"a">>>>
MCSaveOverlay == <<<<"b", "a">>, <<"b", "a", "b">>>>
=============================================================================
