------------------------------ MODULE MCCommands ------------------------------
(* Events have no hook, a blocking one, or a plain one before a blocking    *)
(* one. A mixture asks one model, three, or one in two entries. Of three    *)
(* processes two start the same session.                                    *)
EXTENDS Commands, TLC

CONSTANTS p1, p2, p3

MCHookLists == {<<>>, <<"blocking">>, <<"plain", "blocking">>}
MCModelLists == {<<"m1">>, <<"m1", "m2", "m3">>, <<"m1", "m1">>}
MCEnvironments == {{}, {"anthropic"}}
MCYamlFiles == {<<>>, <<"groq", "ollama">>}
MCIdOf == p1 :> "a" @@ p2 :> "b" @@ p3 :> "a"
MCRaces == {{p1, p2}, {p1, p3}}
MCAdditions == {<<p1, p3>>, <<p2, p3>>}
MCTermSizes == {<<4, 4>>, <<80, 6>>}
=============================================================================
