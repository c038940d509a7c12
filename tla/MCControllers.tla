---------------------------- MODULE MCControllers ----------------------------
(* Instances of Controllers for TLC. *)
EXTENDS Controllers

\* All clusters are of one stream.
OneStream == [c \in Clusters |-> CHOOSE s \in Streams : TRUE]

TwoTargets == {<<4, 9>>, <<4, 10>>}

NoneAtFirst == [t \in Targets |-> 0]
TwoOfTheSecond == [t \in Targets |-> IF t = <<4, 10>> THEN 2 ELSE 0]
TwoEach == [t \in Targets |-> 2]
OneOrTwo == [t \in Targets |-> IF t = <<4, 10>> THEN 2 ELSE 1]

\* 4.9.9 and 4.9.10, 4.10.9 and 4.10.10: the later is not the later as text.
NinthPatches == [r \in Releases |-> r[1] \o <<8 + r[2]>>]

\* In the channel group "candidate", 4.10.0-rc.1, of which Atoi makes 4.10.0.1,
\* comes before 4.10.0, and 4.10.1 after it; 4.9.9 and 4.9.10 are as above.
Candidates == [r \in Releases |->
                 IF r[1] = <<4, 9>> THEN NinthPatches[r]
                 ELSE r[1] \o CASE r[2] = 1 -> <<0, 1>>
                               [] r[2] = 2 -> <<0>>
                               [] OTHER -> <<r[2] - 2>>]
=============================================================================
