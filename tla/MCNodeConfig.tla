---------------------------- MODULE MCNodeConfig ----------------------------
EXTENDS NodeConfig, TLC

\* Two networks, and a format whose bytes are the digits 0 to 2: the second
\* address is longer than one digit can say.
addr1 == <<2>>

addr2 == <<0, 1, 2, 0>>

mcMultiaddr == {addr1, addr2}

mcPSK == {<<0, 1>>, <<2, 0>>}

mcLabel == {<<1>>, <<1, 1>>}

mcInvites ==
  {[addrs |-> <<addr1>>, psk |-> <<0, 1>>, label |-> <<1>>],
   [addrs |-> <<addr2>>, psk |-> <<2, 0>>, label |-> <<>>]}

mcMyAddrs == <<addr1, addr2>>

mcDefaultPeers == {addr1}

mcEdits ==
  {[config |-> [key |-> "node.key", mode |-> "public", net |-> <<>>, peers |-> {}, token |-> "secret"],
    psk |-> <<0, 1>>],
   [config |-> [key |-> "other.key", mode |-> "custom_public", net |-> <<1, 1>>, peers |-> {}, token |-> "secret"],
    psk |-> <<0, 1>>],
   [config |-> [key |-> "node.key", mode |-> "private", net |-> <<>>, peers |-> {addr2}, token |-> "none"],
    psk |-> <<2, 0>>]}

Symmetry == Permutations(Handler) \cup Permutations(Identity)
=============================================================================
