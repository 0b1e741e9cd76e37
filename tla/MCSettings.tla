----------------------------- MODULE MCSettings -----------------------------
(* Settings for TLC: the defaults and one other value of each setting.     *)
EXTENDS Settings

Paths  == {"/tmp/msc_mncc", "/tmp/msc2_mncc"}
Addrs  == {"127.0.0.1", "0.0.0.0"}
Hosts  == {"pbx", "10.0.0.2"}
Levels == {2, 9}

\* An empty file, the example of the manual, and one that changes its mind.
Files ==
    {<<>>,
     << <<"mncc", "socket-path", "/tmp/msc_mncc">>, <<"sip", "local", "0.0.0.0">>,
        <<"sip", "remote", "pbx">> >>,
     << <<"app", "use-imsi", "">>, <<"mncc", "socket-path", "/tmp/msc2_mncc">>,
        <<"app", "no use-imsi", "">> >>}
=============================================================================
