------------------------------ MODULE MCRestApi -----------------------------
EXTENDS RestApi

MCHostLists == {<<"ip">>, <<"cidr">>, <<"ip", "range">>, <<"", "hostname">>, <<"no host">>}
MCCredLists == {<<"network">>, <<"network", "network">>, <<"openshift">>, <<"vcenter">>,
                <<"vcenter", "vcenter">>, << >>}
MCGivenValues == [username |-> {Text}, password |-> {None, Blank, Text},
                  ssh_key |-> {Blank, Text}, ssh_keyfile |-> {Blank, Text},
                  ssh_passphrase |-> {Blank, Text}, become_password |-> {Marked},
                  auth_token |-> {None, Blank, Text, Marked},
                  vault_secret_path |-> {None, Blank, Text},
                  vault_secret_key |-> {None, Blank, Text}]
MCPorts == {None, 0, 8443, 65537}
MCDirectories == {<< >>, <<"/opt">>}
=============================================================================
