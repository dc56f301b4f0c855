--------------------------- MODULE MCCommandLine ---------------------------
(* Model-checking instance of CommandLine: a block and a half of data, and a *)
(* stream header of a block that does not begin like them.                   *)
EXTENDS CommandLine, TLC

MCByte       == 1..3
MCEncSize(b) == 8 + Len(b)
MCData       == <<1, 2, 3>>
MCHeader     == <<3, 1>>
MCNames      == {"a", "b", "a.bz3"}
MCSuffixed   == "a" :> "a.bz3"

Only(n, f)  == [x \in MCNames |-> IF x = n THEN f ELSE Absent]
MCDirectory == {Only("a", Plain(MCData)), Only("a.bz3", Archive(Stream(MCData)))}

(* -b 10 is too large, and as an int32 (here modulo 8) it is 2. *)
Options == [mode : {"encode", "decode", "test"}, stdout : {FALSE}, force : BOOLEAN,
            rm : BOOLEAN, blockMB : {10}, jobs : {2},
            args : {<<"a">>, <<"a.bz3">>, <<"a", "b">>, <<"a.bz3", "b">>, <<"a.bz3", "a">>}]
Onto    == [mode : {"encode", "decode"}, stdout : {FALSE}, force : BOOLEAN,
            rm : BOOLEAN, blockMB : {2}, jobs : {1, 2}, args : {<<"a", "a">>, <<"a.bz3", "a.bz3">>}]
ToStdout == [mode : {"encode", "decode"}, stdout : {TRUE}, force : {FALSE},
             rm : BOOLEAN, blockMB : {2}, jobs : {0}, args : {<<>>, <<"a">>, <<"a.bz3">>}]
Refusable == [mode : {"encode"}, stdout : {FALSE}, force : {FALSE}, rm : {TRUE},
              blockMB : {2, 4}, jobs : {0, 65}, args : {<<"a">>, <<"a", "b", "a">>}]
MCCommands == Options \cup Onto \cup ToStdout \cup Refusable
=============================================================================
