------------------------ MODULE MCTextInputHandler ------------------------
(* Small texts for TLC: characters of one to four bytes.                   *)
EXTENDS TextInputHandler

Letter == <<"letter">>
Space  == <<"separator">>
Two    == <<"lead2", "continuation">>
Three  == <<"lead3", "continuation", "continuation">>
Four   == <<"lead4", "continuation", "continuation", "continuation">>

MCCharacters == {Letter, Space, Two, Three, <<>>}
MCTexts      == {<<>>, Two \o Space, Four \o Letter, Letter \o Space \o Letter}
=============================================================================
