----------------------------- MODULE MCRoute53 -----------------------------
(* Small instances of Route53 for TLC. *)
EXTENDS Route53, TLC

MCSymmetry == Permutations(Clients) \cup Permutations(Zones)

Apex(dot) == [label |-> "apex", dot |-> dot]
Www(dot)  == [label |-> "www", dot |-> dot]
Ch(a, n, t) == [action |-> a, name |-> n, type |-> t]

MCDotted    == {Apex(TRUE)}
MCZoneNames == {Apex(TRUE), Apex(FALSE)}

\* Create, overwrite and delete of one record set, named with and without the dot.
MCOneRecord == {Ch("CREATE", Www(FALSE), "A"), Ch("UPSERT", Www(TRUE), "A"),
                Ch("DELETE", Www(FALSE), "A")}

\* Beside it the zone's own NS, a CNAME at the apex and one below it.
MCManyRecords == {Ch("CREATE", Www(FALSE), "A"), Ch("DELETE", Www(TRUE), "A"),
                  Ch("UPSERT", Apex(TRUE), "NS"), Ch("DELETE", Apex(FALSE), "NS"),
                  Ch("UPSERT", Apex(FALSE), "CNAME"), Ch("UPSERT", Www(TRUE), "CNAME")}

Singles(S) == {<<a>> : a \in S}
Pairs(S)   == {<<a, b>> : a, b \in S}

MCPairs   == Pairs(MCOneRecord)
MCBatches == {<< >>} \cup Singles(MCManyRecords) \cup MCPairs
=============================================================================
