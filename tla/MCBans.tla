--------------------------------- MODULE MCBans ---------------------------------
(* Instances of Bans: two tiers, the second held longer than the first.      *)
EXTENDS Bans, TLC

One == <<"l7ban4">>
Two4 == <<"l7ban4", "l7ban4_24h">>
Two6 == <<"l7ban6", "l7ban6_24h">>
One6 == <<"l7ban6">>

\* nft.table names the family only: the table is "filter".
InetOnly == <<"inet">>
Filter   == [family |-> "inet", name |-> "filter"]

Short == [s \in {"l7ban4", "l7ban6"} |-> 2] @@ [s \in {"l7ban4_24h", "l7ban6_24h"} |-> 3]
=============================================================================
