----------------------------- MODULE MCMcpProxy -----------------------------
(* The MCP proxy and two messages of a client, out of twenty-six.           *)
EXTENDS McpProxy

MCWords == ShellWords \cup FlagWords
             \cup {"rm", "/bin/rm", ".rm.shield-real", "ls", "kill", "python", "pulumi", "mine", "/etc/x", "./y"}
MCBase == [w \in MCWords |-> IF w \in {"/bin/rm", ".rm.shield-real"} THEN "rm" ELSE w]
MCRules == [w \in MCWords |->
    [always |-> IF w = "kill" THEN 30 ELSE 0,
     words  |-> IF w = "ls" THEN {"-f"} ELSE {}, found |-> IF w = "ls" THEN 20 ELSE 0,
     empty  |-> IF w = "pulumi" THEN 60 ELSE 0]]
MCDangerous == {<<"rm", "-rf", "/etc/x">>, <<"kill">>}

Run(c)  == [tool |-> "execute_command", arg |-> c]
MCCalls ==
    {Run(c) : c \in
        {<<>>, <<"ls", "./y">>, <<"env", "ls">>, <<"eval", "''">>, <<"sudo", "ls">>,
         <<"rm", "./y">>, <<"sudo", "-u", "A=b", "rm", "./y">>, <<"env", "A=b", "rm", "./y">>,
         <<"eval", "''", "mine", "-rf", "./y", "''">>, <<"xargs", "mine", "-rf">>,
         <<"sh", "-c", "env", "A=b", "/bin/rm", "-rf", "/etc/x">>,
         <<"sudo", "-u", "A=b", "kill", "-f">>, <<"command", "python", "-c", "ls">>,
         <<"xargs", ".rm.shield-real">>, <<"command", "-i", "rm", "./y">>,
         <<"eval", "pulumi", "''">>}}
    \cup {[tool |-> t, arg |-> <<"/etc/x">>] : t \in Tools \ {"execute_command"}}
    \cup {[tool |-> "write_file", arg |-> <<"./y">>]}

\* The table of this instance is one the theorem NothingIsHidden speaks of.
ASSUME OrdinaryTable

\* The exceptions of WrappersHideNothing are real: the engine lets `rm ./y` through
\* behind every wrapper it overlooks, and a value left empty behind eval.
ASSUME OverlookedHide ==
    /\ Asks(Run(<<"rm", "./y">>))
    /\ \A w \in Overlooked : ~Asks(Run(w \o <<"rm", "./y">>))
    /\ Asks(Run(<<"pulumi", "''">>)) /\ ~Asks(Run(<<"eval", "pulumi", "''">>))
=============================================================================
