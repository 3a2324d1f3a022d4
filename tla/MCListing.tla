----------------------------- MODULE MCListing ------------------------------
(* A small instance of ListingHistory for TLC.                             *)
EXTENDS ListingHistory
=============================================================================
