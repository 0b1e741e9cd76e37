------------------------------ MODULE Settings ------------------------------
(***************************************************************************)
(* The settings of the process (g_app): their defaults and the             *)
(* configuration file at start-up (main.c), the VTY commands that change   *)
(* and write them (vty.c), and the two that are put into effect elsewhere: *)
(* the address nua binds (sip_agent_start, once) and sofia-sip's log level *)
(* (su_log_set_level, when a command sets it).                             *)
(*                                                                         *)
(* An address stands for address and port.                                 *)
(***************************************************************************)
EXTENDS Integers, Sequences, FiniteSetsExt

CONSTANTS Path,     \* socket paths
          Addr,     \* local addresses
          Host,     \* addresses of the PBX
          Level,    \* log levels of sofia-sip
          Handwritten   \* configuration files an operator may have prepared

VARIABLES
    running,  \* the process has started
    app,      \* g_app, without the agent and the connection
    file,     \* the configuration file, as the sequence of its lines
    uri,      \* the host of the URI nua is bound to
    level,    \* the log level in effect in sofia-sip
    saved     \* ghost: the settings when the file was written

vars == <<running, app, file, uri, level, saved>>

-----------------------------------------------------------------------------
(* Commands and files.                                                     *)

\* mncc_sip_vty_init and main.
Defaults == [path |-> "/tmp/msc_mncc", local |-> "127.0.0.1", remote |-> "pbx",
             level |-> 2, imsi |-> FALSE]

\* The syntax of the commands: the node, the fixed words, the argument.
Command ==
    {<<"sip", "local", a>> : a \in Addr}
        \cup {<<"sip", "remote", h>> : h \in Host}
        \cup {<<"sip", "sofia-sip log-level", n>> : n \in Level}
        \cup {<<"mncc", "socket-path", p>> : p \in Path}
        \cup {<<"app", w, "">> : w \in {"use-imsi", "no use-imsi"}}

\* What the commands do: the node, the words, and the setting they assign.
Assigns == {<<"sip", "local", "local">>, <<"sip", "remote", "remote">>,
            <<"sip", "sofia-sip log-level", "level">>, <<"mncc", "socket-path", "path">>,
            <<"app", "use-imsi", "imsi">>, <<"app", "no use-imsi", "imsi">>}

Sets(cmd, key) == <<cmd[1], cmd[2], key>> \in Assigns

\* The value is the argument, except for the two commands that have none.
Value(cmd) == IF cmd[2] = "use-imsi" THEN TRUE ELSE
              IF cmd[2] = "no use-imsi" THEN FALSE ELSE cmd[3]

\* One command: cfg_sip_local_addr, cfg_sip_remote_addr, cfg_sip_sofia_log_level,
\* cfg_mncc_path, cfg_use_imsi, cfg_no_use_imsi.
Apply(g, cmd) == [key \in DOMAIN g |-> IF Sets(cmd, key) THEN Value(cmd) ELSE g[key]]

\* A line that no command matches makes vty_read_config_file fail, and main exits.
Accepted(f) == \A i \in DOMAIN f : f[i] \in Command

ASSUME FilesAssumption == \A f \in Handwritten : f \in Seq(Command)

\* The defaults are values that the commands take, too.
ASSUME DefaultsAssumption ==
    /\ Defaults.path \in Path /\ Defaults.local \in Addr
    /\ Defaults.remote \in Host /\ Defaults.level \in Level

\* vty_read_config_file runs the commands of a file in order: the last one for a setting
\* counts.
Setting(f, key, default) ==
    LET lines == {i \in DOMAIN f : Sets(f[i], key)}
    IN  IF lines = {} THEN default ELSE Value(f[Max(lines)])
Configured(f) == [key \in DOMAIN Defaults |-> Setting(f, key, Defaults[key])]

\* External (sofia-sip): the library's own level (its SU_DEBUG), until a command sets it.
LibraryLevel == 3
LevelAfter(f) == Setting(f, "level", LibraryLevel)

\* Mutant: config_write_app without use-imsi.
config_write_no_app(g) ==
    << <<"sip", "local", g.local>>, <<"sip", "remote", g.remote>>,
       <<"sip", "sofia-sip log-level", g.level>>, <<"mncc", "socket-path", g.path>> >>

\* Mutant: config_write_sip with words that are not those of the command.
config_write_words(g) ==
    << <<"sip", "local", g.local>>, <<"sip", "remote", g.remote>>,
       <<"sip", "sofia-log-level", g.level>>, <<"mncc", "socket-path", g.path>> >>
        \o (IF g.imsi THEN << <<"app", "use-imsi", "">> >> ELSE <<>>)

\* config_write_sip, config_write_mncc, config_write_app.
config_write(g) ==
    << <<"sip", "local", g.local>>, <<"sip", "remote", g.remote>>,
       <<"sip", "sofia-sip log-level", g.level>>, <<"mncc", "socket-path", g.path>> >>
        \o (IF g.imsi THEN << <<"app", "use-imsi", "">> >> ELSE <<>>)

\* make_sip_uri: the hostname is mapped, and the address is used.
make_sip_uri(g) == g.local

-----------------------------------------------------------------------------
Init == /\ running = FALSE
        /\ app = Defaults
        /\ file \in Handwritten
        /\ uri = "none"
        /\ level = LibraryLevel
        /\ saved = Configured(file)

\* main, to the event loop; sip_agent_start binds.
Start == /\ ~running
         /\ Accepted(file)
         /\ running' = TRUE
         /\ app' = Configured(file)
         /\ level' = LevelAfter(file)
         /\ uri' = make_sip_uri(Configured(file))
         /\ UNCHANGED <<file, saved>>

\* The process ends (or main gives up because the address is in use).
Stop == /\ running
        /\ running' = FALSE
        /\ uri' = "none"
        /\ UNCHANGED <<app, file, level, saved>>

\* A configuration command on the VTY.
Configure(cmd) == /\ running
                  /\ app' = Apply(app, cmd)
                  /\ level' = IF Sets(cmd, "level") THEN Value(cmd) ELSE level
                  /\ UNCHANGED <<running, file, uri, saved>>

\* External (VTY library): write file calls the config_write functions.
WriteFile == /\ running
             /\ file' = config_write(app)
             /\ saved' = app
             /\ UNCHANGED <<running, app, uri, level>>

Next == Start \/ Stop \/ WriteFile \/ \E cmd \in Command : Configure(cmd)

Spec == Init /\ [][Next]_vars

-----------------------------------------------------------------------------
(* Properties.                                                             *)

\* Write and restart: what is written is accepted at the next start (the text of the
\* config_write functions is the syntax of the commands), and a process that starts has
\* the settings of the last write, whatever was configured before and after it and however
\* often it was restarted since.  They are in effect: nua is bound to the address that
\* INVITEs will name, and a file that was written, unlike one that an operator left
\* without the command, sets the level.
SettingsSurvive ==
    [][/\ file' # file => Accepted(file')
       /\ ~running /\ running' =>
             /\ app' = saved
             /\ uri' = saved.local
             /\ file = config_write(saved) => level' = saved.level]_vars
=============================================================================
