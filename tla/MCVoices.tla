-------------------------------- MODULE MCVoices --------------------------------
(* The voices alone, for what a run of their own shows.                      *)
EXTENDS NVoices, TLC

(* One voice whose pan and send change while its volume is on the way.       *)
OneVoice == <<1>>
Mixer == {[period |-> 276, calls |-> <<{<<"alloc", 1>>}, {<<"start", 1>>}, {<<"vol", 1>>}, {<<"pan", 1>>}, {<<"fxmix", 1>>}>>]}
===============================================================================
