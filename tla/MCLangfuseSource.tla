--------------------------- MODULE MCLangfuseSource ---------------------------
(* Small instances of LangfuseSource.                                      *)
EXTENDS LangfuseSource

\* Listings of up to six records: empty, partial, full and several pages.
MCListings == {[i \in 1..n |-> i] : n \in 0..6}

\* Two full pages.
MCFullListing == {<<1, 2, 3, 4>>}
=============================================================================
