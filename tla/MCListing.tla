------------------------------ MODULE MCListing ------------------------------
(* Searches that match nothing, a part of a page, whole pages and a page    *)
(* and a part, with up to two changes under the walk.                       *)
EXTENDS Listing, TLC

MCStarts == {<<>>, <<1>>, <<1, 2>>, <<1, 2, 3>>, <<1, 2, 3, 4>>}

(* As documented; without a number, without a size; with other names.       *)
MCShapes == {Keys, {"Total", "PageSize"}, {"Total"}, {}}
=============================================================================
