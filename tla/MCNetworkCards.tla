--------------------------- MODULE MCNetworkCards ---------------------------
EXTENDS NetworkCards

\* One network: an old card, two newer ones of the same age, and one whose
\* signature is not that of its maker.
card(name, t, ok) == [id |-> "net", name |-> name, CreatedAt |-> t, signed |-> ok]

mcCard == {card("old", 1, TRUE), card("new", 2, TRUE), card("rival", 2, TRUE), card("forged", 3, FALSE)}

mcDirectory == <<card("forged", 3, FALSE), card("old", 1, TRUE)>>
=============================================================================
