-------------------------------- MODULE MCWebUI --------------------------------
(***************************************************************************)
(* The status poll and the rest of the page share only the server and do   *)
(* not wait for each other: each is checked with the other at rest.        *)
(***************************************************************************)
EXTENDS WebUI

CONSTANTS a, b, r1, r2

VARIABLE part   \* which of the two is

MCListings == {a, b}
MCRequests == {r1, r2}

MCInit == Init /\ part \in {"status", "page"}
MCNext ==
    /\ \/ part = "status" /\ (StatusStep \/ ServerChanges)
       \/ part = "page" /\ (PageStep \/ ServerStep)
    /\ UNCHANGED part

MCSpec == MCInit /\ [][MCNext]_<<vars, part>> /\ (part = "page" => PageFairness)
===============================================================================
