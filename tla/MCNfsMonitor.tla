---------------------------- MODULE MCNfsMonitor ----------------------------
(* Instance of NfsMonitor for TLC. *)
EXTENDS NfsMonitor, NfsPackets

CONSTANTS c1, m1, m2, d1, f1, n1

PrefixPair == {<<m1, m2>>}
AllTables == [nfs |-> nfs3_lookup, mountd |-> mount3_lookup, portmapper |-> portmap_lookup]
AllProcs == DOMAIN nfs3_lookup \cup DOMAIN mount3_lookup \cup DOMAIN portmap_lookup
LeadingProcs == <<{"MNT"}, {"CREATE", "UMNT", "READ"}>>
=============================================================================
