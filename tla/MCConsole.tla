------------------------------- MODULE MCConsole -------------------------------
(* Console with a printing character, the two control characters that are  *)
(* stored like one, a limit of 3, a BIOS buffer of 2 keys and a row that a *)
(* prompt of 2 characters and 2 of the line fill; called with what main    *)
(* passes, BIOS_RL_ECHO_STAR | BIOS_RL_CAN_ESC, or so that the characters  *)
(* themselves are echoed and ESC is ignored.                               *)
EXTENDS Console

MCPrompt == <<"p", ":">>
MCFlagSets == {BIOS_RL_ECHO_STAR \cup BIOS_RL_CAN_ESC, BIOS_RL_ECHO}
=============================================================================
