-------------------------- MODULE MCChannelManager --------------------------
(* Small instances of ChannelManager for TLC.                              *)
EXTENDS ChannelManager

\* Each kind of channel by itself, two channels together, and one that starts
\* beside one whose configuration is rejected: the first Start fails half-way
\* through registration and the one after it starts what is there.
MCPairs == {<<k, "off">> : k \in {"server", "session", "connection"}}
           \cup {<<"loop", "server">>, <<"session", "rejected">>}

\* A channel alone, of any kind that can be started.
MCAlone == {<<k>> : k \in {"loop", "server", "session", "connection"}}

=============================================================================
