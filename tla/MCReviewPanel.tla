--------------------------- MODULE MCReviewPanel ---------------------------
(***************************************************************************)
(* ReviewPanel for TLC: two clicks on "generate", the second of which may  *)
(* come while the first one's run is under way or has been left by its     *)
(* worker; or one click and more that goes wrong.                          *)
(***************************************************************************)
EXTENDS ReviewPanel

MCReviews == 1..2

MCOneReview == 1..1

\* For two reviews: a token each, so that a text can hold tokens of both.
MCChunks == <<1, 1>>

\* For one review: a reply of which a part can be lost.
MCTwoChunks == <<2>>
============================================================================
