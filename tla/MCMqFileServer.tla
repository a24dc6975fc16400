--------------------------- MODULE MCMqFileServer ---------------------------
(* MqFileServer for TLC. *)
EXTENDS MqFileServer

ShortAndLong == {<<"nul", "text">>, <<"text", "text", "text">>,
                 <<"text", "nul", "text", "text">>, <<"text", "error", "nul">>, <<"error">>}
=============================================================================
