-------------------------- MODULE MCProcessPrograms --------------------------
(* ProcessPrograms for TLC. *)
EXTENDS ProcessPrograms

MCJobLines == {
    <<"ls">>, <<" ", "cat", " ", "&">>, <<"nosuch">>, <<"&">>, <<" ">>, <<"exit">>,
    <<"echo">>, <<"echo", " ", "-n", "1", "x">>}

MCPipeLines == {
    <<"yes", "|", "head">>, <<"ls", " ", "|", "cat", "|", "head", ">", "file">>,
    <<"cat", "<", "file", ">", "file">>, <<"cat", ">", "file", "<", "file">>,
    <<"cat", "|", "cat", "<", "file">>, <<"cat", "|">>, <<"ls", "|", "cat", "|">>,
    <<"cat", "&">>, <<"ls", ">">>, <<"nosuch", "|", "cat">>, <<"echo", "x">>, <<"cd", "x">>}
=============================================================================
