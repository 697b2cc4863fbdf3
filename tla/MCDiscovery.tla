---------------------------- MODULE MCDiscovery ----------------------------
(* TLC instances of Discovery: two Navigators, the second also a bootstrap, *)
(* which announce a loopback address each; a Star; a forged announcement.   *)
EXTENDS Discovery

CONSTANTS atlas, both, n1, n2, star, forged, lan, lan2, loop, p0, p1, p2, p3

Adverts == {n1, n2, star, forged}
Kinds == [a \in Adverts |-> IF a \in {n1, n2} THEN "navigator"
                            ELSE IF a = star THEN "other" ELSE "invalid"]
AnnouncedBy == [a \in Adverts |-> IF a = n1 THEN {lan, loop} ELSE IF a = n2 THEN {loop}
                                  ELSE IF a = star THEN {lan2} ELSE {}]
BeaconOf == [a \in Adverts |-> IF a = n1 THEN {lan, lan2} ELSE {}]
Peers == {p0, p1, p2, p3}
Apart == [x \in {atlas, both} \cup Adverts |->
            CASE x = atlas -> p0 [] x = n1 -> p1 [] x \in {n2, both} -> p2 [] OTHER -> p3]

=============================================================================
