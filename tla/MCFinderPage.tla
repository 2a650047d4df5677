----------------------------- MODULE MCFinderPage -----------------------------
(* Four shops, one of them without coordinates, seen from the server's     *)
(* guess and from two places the browser may be at.                        *)
EXTENDS FinderPage

CONSTANTS Uptown, Harbor, Airport, Tea, Coast

MCShops == 1 .. 4
MCDistanceFrom == Uptown :> <<1, 2, 3, FarAway>> @@ Harbor :> <<1, 3, 2, FarAway>>
                  @@ Airport :> <<3, 2, 1, FarAway>>
MCMatches == Tea :> 1 .. 4 @@ Coast :> {2, 4}

AllOpen == <<0, 0, 0, 0>>
FirstShutThirdGone == <<2, 1, Gone, 0>>
MCLists == {AllOpen, FirstShutThirdGone}
=============================================================================
