------------------------------ MODULE MCService ------------------------------
(* Constants of the run Service: the server and the commands change different *)
(* adapters of one file, each with a memory that has not got the other.       *)
EXTENDS Service

CONSTANTS a1, b1, u1, s1

MCRemote == {<<"register", a1>>, <<"remove", a1>>, <<"list", s1>>, <<"run", u1>>}
MCLocal == {<<"register", b1>>, <<"user", u1>>, <<"asset", s1>>, <<"define", s1>>,
            <<"delete", s1>>}
=============================================================================
