------------------------------- MODULE Ingest -------------------------------
(***************************************************************************)
(* workflows/ingest.py as a whole: the listing of a feed and the documents *)
(* behind its entries.  They meet in one place: the transaction of a page  *)
(* commits each new item with its fetch job.  Capture begins with the      *)
(* items that are there, in any number, so each side is followed by itself *)
(* while the other one rests.                                              *)
(***************************************************************************)
EXTENDS Capture

CONSTANTS Adapter, Runs, PageSize, FrontSize, MaxEntries, Date, Overlap, NoDate

VARIABLES published, found, stored, pc, at, page

listing == <<published, found, stored, pc, at, page>>

Listing == INSTANCE Discovery

ASSUME IngestAssumption == Listing!DiscoveryAssumption

\* The source publishes and discover runs walk its listing.
ListingSpec == Init /\ Listing!Init /\ [][Listing!Next /\ UNCHANGED vars]_<<vars, listing>>

----------------------------------------------------------------------------
\* Discovery: no cursor, stored or in use, hides an entry that is not known.
CursorsCover == Listing!CursorsCover

\* Discovery: every entry is discovered in the end.
PublishedIsFound == Listing!PublishedIsFound
=============================================================================
