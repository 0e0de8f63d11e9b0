---------------------------- MODULE MCMrtReader ----------------------------
(* Instances of MrtReader for TLC. *)
EXTENDS MrtReader

P(name, size) == [peer |-> name, size |-> size]

Index(items, count, cut, big) ==
    [type |-> "TABLE_DUMPV2", sub |-> "PEER_INDEX_TABLE", afi |-> "none", big |-> big,
     cut |-> cut, count |-> count, items |-> items]

\* Two peers whose addresses differ in size, which need the heap; one that needs
\* none; one with a bad header; one that ends within its last peer.
TwoPeers == Index(<<P("b", 2), P("a", 1)>>, 2, "no", TRUE)
MCIndexes ==
    {TwoPeers,
     Index(<<P("c", 1)>>, 1, "no", FALSE),
     Index(<<>>, 0, "head", FALSE),
     Index(<<P("a", 1)>>, 1, "item", FALSE)}

Rib(sub, afi, items, cut) ==
    [type |-> "TABLE_DUMPV2", sub |-> sub, afi |-> afi, big |-> FALSE, cut |-> cut,
     count |-> Len(items), items |-> items]

Entry(i) == [idx |-> i]

Other(type, sub, afi, cut) ==
    [type |-> type, sub |-> sub, afi |-> afi, big |-> FALSE, cut |-> cut, count |-> 0,
     items |-> IF type = "TABLE_DUMP" THEN <<[peer |-> "a"], [peer |-> "b"]>> ELSE <<>>]

MCRecords ==
    {TwoPeers,
     Index(<<P("a", 1)>>, 2, "no", FALSE),  \* announces a peer it has not
     Rib("RIB_IPV4_UNICAST", "IPV4", <<Entry(1), Entry(0)>>, "no"),
     Rib("RIB_IPV6_UNICAST_ADDPATH", "IPV6", <<Entry(0)>>, "item"),
     Rib("RIB_GENERIC", "other", <<Entry(2)>>, "no"),
     Other("TABLE_DUMP", "IPV6", "IPV6", "item"),
     Other("BGP", "UPDATE", "IPV4", "local"),
     Other("BGP4MP_ET", "STATE_CHANGE_AS4", "IPV6", "state"),
     Other("BGP4MP", "MESSAGE_AS4_ADDPATH", "other", "no")}
=============================================================================
