--------------------------- MODULE MCKeyboardSetup ---------------------------
EXTENDS KeyboardSetup

MCMachines == {<<"keyboard", "mouse">>, <<"mouse", "keyboard">>, <<"keyboard">>,
               <<"keyboard", "keyboard">>, <<"mouse">>}

MCCommands == {<<"set_scan_code_set_3", "make_only">>, <<"set_default_parameters">>,
               <<"set_default_parameters", "set_scan_code_set_3">>}
=============================================================================
