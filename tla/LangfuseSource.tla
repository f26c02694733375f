---------------------------- MODULE LangfuseSource ----------------------------
(***************************************************************************)
(* gateway_sli.sources.langfuse_api.LangfuseApiTraceSource: one paginated  *)
(* read of a window (iter_records) against a Langfuse server whose listing *)
(* may grow while it is being read.  The first response selects cursor or  *)
(* numbered pages for the whole read.  A record is its id.                 *)
(***************************************************************************)
EXTENDS Integers, Sequences, SequencesExt, FiniteSets

CONSTANTS
  Listings,   \* possible listings of the window when the read starts
  LateIds,    \* records ingested into the window during the read
  Modes,      \* server kinds: "cursor", "total" (totalPages), "untotalled"
  Glitches,   \* server faults: "malformed", "stuck", "empty", "switch"
  MaxGlitches,\* bound: server faults of one read
  PageLimit,  \* page_limit
  MaxPages,   \* max_pages
  MaxRetries  \* max_retries

\* A listing names every record once.
ASSUME SourceAssumption ==
  /\ \A l \in Listings :
       l \in Seq(Nat) /\ \A i, j \in DOMAIN l : l[i] = l[j] => i = j
  /\ LateIds \subseteq Nat
  /\ PageLimit \in Nat \ {0}
  /\ MaxPages \in Nat
  /\ MaxRetries \in Nat
  /\ MaxGlitches \in Nat
  /\ Modes \subseteq {"cursor", "total", "untotalled"}
  /\ Glitches \subseteq {"malformed", "stuck", "empty", "switch"}

NoCursor == -1
NoTotal == -1

VARIABLES
  db,        \* the server's listing of the window, in listing order
  mode,      \* the kind of server
  pc,        \* "first", "cursor", "numbered"; "complete", "incomplete", "error"
  out,       \* records yielded so far
  page,      \* number of the last numbered page fetched
  total,     \* total_pages, from the first page only
  prevLen,   \* length of the previous page (len(previous_data))
  cursor,    \* the cursor to fetch next: the last id of the previous page
  cursors,   \* seen_cursors
  sigs,      \* seen_page_signatures
  pages,     \* stats["pages"]
  requests,  \* stats["requests"]
  attempt,   \* attempt of the current request
  glitches,  \* history: kinds of server faults so far, each at most once
  initial    \* history: the listing when the read started

serverVars == <<db, mode, glitches, initial>>
vars == <<serverVars, pc, out, page, total, prevLen, cursor, cursors, sigs,
          pages, requests, attempt>>

Done == {"complete", "incomplete", "error"}

Reading == pc \notin Done

-----------------------------------------------------------------------------
(* The server                                                              *)

TotalPages == (Len(db) + PageLimit - 1) \div PageLimit

\* Position of an id in the listing.
Position(id) == CHOOSE i \in DOMAIN db : db[i] = id

\* Index of the last record before the page that is asked for.
Offset ==
  CASE pc = "first"    -> 0
    [] pc = "numbered" -> page * PageLimit
    [] pc = "cursor"   -> Position(cursor)

\* The page of records after position n.
PageAfter(n) == SubSeq(db, n + 1, IF n + PageLimit < Len(db) THEN n + PageLimit ELSE Len(db))

HonestData == PageAfter(Offset)

HonestCursor ==
  IF mode = "cursor" /\ Offset + PageLimit < Len(db)
    THEN db[Offset + PageLimit] ELSE NoCursor

HonestTotal == IF mode = "total" THEN TotalPages ELSE NoTotal

-----------------------------------------------------------------------------
(* Leaving the read                                                        *)

Stop(status) ==
  /\ pc' = status
  /\ UNCHANGED <<out, page, total, prevLen, cursor, cursors, sigs, pages>>

\* Mutant of MorePages: a full last page ends the read.
MorePagesStrict(p, t, n) == IF t = NoTotal THEN n > PageLimit ELSE p < t

\* The loop condition of _iter_numbered_pages.
MorePages(p, t, n) == IF t = NoTotal THEN n >= PageLimit ELSE p < t

\* iter_records after the first page.
FirstPage(data, c, t) ==
  /\ pc = "first"
  /\ out' = data
  /\ page' = 1
  /\ total' = t
  /\ prevLen' = Len(data)
  /\ cursor' = c
  /\ cursors' = {c} \ {NoCursor}
  /\ pc' = CASE c # NoCursor -> "cursor"
             [] c = NoCursor /\ t # 0 /\ MorePages(1, t, Len(data)) -> "numbered"
             [] OTHER -> "complete"

\* One turn of the loop of _iter_cursor_pages.
CursorPage(data, c) ==
  /\ pc = "cursor"
  /\ UNCHANGED <<page, total>>
  /\ IF data = <<>> /\ c # NoCursor
       THEN /\ pc' = "incomplete"
            /\ UNCHANGED <<out, prevLen, cursor, cursors>>
       ELSE /\ out' = out \o data
            /\ prevLen' = Len(data)
            /\ cursor' = c
            /\ cursors' = cursors \cup ({c} \ {NoCursor})
            /\ pc' = CASE c = NoCursor -> "complete"
                       [] c # NoCursor /\ c \in cursors -> "incomplete"
                       [] OTHER -> "cursor"

\* One turn of the loop of _iter_numbered_pages.
NumberedPage(data, c) ==
  /\ pc = "numbered"
  /\ page' = page + 1
  /\ UNCHANGED <<total, cursor, cursors>>
  /\ IF c # NoCursor \/ data = <<>>
       THEN /\ pc' = IF c # NoCursor THEN "incomplete" ELSE "complete"
            /\ UNCHANGED <<out, prevLen>>
       ELSE /\ out' = out \o data
            /\ prevLen' = Len(data)
            /\ pc' = IF MorePages(page + 1, total, Len(data))
                       THEN "numbered" ELSE "complete"

\* Mutant of Repeated: repeated pages are accepted.
RepeatedNever(data) == FALSE

\* _fetch_page: a non-empty page that was already delivered.
Repeated(data) == data # <<>> /\ data \in sigs

\* _fetch_page and its caller on a well-formed response.
Handle(data, c, t) ==
  \/ Repeated(data) /\ Stop("incomplete")
  \/ /\ ~Repeated(data)
     /\ sigs' = sigs \cup ({data} \ {<<>>})
     /\ pages' = pages + 1
     /\ FirstPage(data, c, t) \/ CursorPage(data, c) \/ NumberedPage(data, c)

-----------------------------------------------------------------------------
(* Steps                                                                   *)

Init ==
  /\ db \in Listings
  /\ mode \in Modes
  /\ initial = ToSet(db)
  /\ glitches = {}
  /\ pc = "first"
  /\ out = <<>>
  /\ page = 0
  /\ total = NoTotal
  /\ prevLen = 0
  /\ cursor = NoCursor
  /\ cursors = {}
  /\ sigs = {}
  /\ pages = 0
  /\ requests = 0
  /\ attempt = 0

\* A late record enters the window's listing anywhere.
Insert ==
  /\ Reading
  /\ \E id \in LateIds \ ToSet(db), i \in 1..(Len(db) + 1) : db' = InsertAt(db, i, id)
  /\ UNCHANGED <<mode, glitches, initial, pc, out, page, total, prevLen, cursor,
                 cursors, sigs, pages, requests, attempt>>

\* Mutant of MayFetch: the page limit is not enforced.
MayFetchAlways == Reading

\* _fetch_page: another request may be made.
MayFetch == Reading /\ pages < MaxPages

\* _fetch_page: the safety limit on pages.
TooManyPages ==
  /\ Reading
  /\ ~MayFetch
  /\ Stop("incomplete")
  /\ UNCHANGED <<serverVars, requests, attempt>>

\* _get: a retryable status with attempts left.
Retry ==
  /\ MayFetch
  /\ attempt < MaxRetries
  /\ requests' = requests + 1
  /\ attempt' = attempt + 1
  /\ UNCHANGED <<serverVars, pc, out, page, total, prevLen, cursor, cursors,
                 sigs, pages>>

\* _get: a retryable status on the last attempt, or any other error status.
GiveUp ==
  /\ MayFetch
  /\ requests' = requests + 1
  /\ Stop("error")
  /\ UNCHANGED <<serverVars, attempt>>

\* An honest answer.
Fetch ==
  /\ MayFetch
  /\ requests' = requests + 1
  /\ attempt' = 0
  /\ Handle(HonestData, HonestCursor, HonestTotal)
  /\ UNCHANGED serverVars

Glitch(kind) ==
  /\ kind \in Glitches \ glitches
  /\ Cardinality(glitches) < MaxGlitches
  /\ glitches' = glitches \cup {kind}
  /\ MayFetch
  /\ requests' = requests + 1
  /\ attempt' = 0
  /\ UNCHANGED <<db, mode, initial>>

\* The body is no JSON object, or its data, meta or totalPages has a wrong shape.
FetchMalformed == Glitch("malformed") /\ Stop("incomplete")

\* The server sends its previous answer again.
FetchStuck ==
  /\ Glitch("stuck")
  /\ pc # "first"
  /\ Handle(SubSeq(out, Len(out) - prevLen + 1, Len(out)), cursor, total)

\* Eventual consistency: the page is empty although the listing is not exhausted.
FetchEmpty ==
  /\ Glitch("empty")
  /\ Handle(<<>>, HonestCursor, HonestTotal)

\* A numbered server starts to send cursors.
FetchSwitch ==
  /\ Glitch("switch")
  /\ pc = "numbered"
  /\ HonestData # <<>>
  /\ Handle(HonestData, Last(HonestData), HonestTotal)

\* The read is over.
Over == ~Reading /\ UNCHANGED vars

Client ==
  \/ TooManyPages \/ Retry \/ GiveUp \/ Fetch
  \/ FetchMalformed \/ FetchStuck \/ FetchEmpty \/ FetchSwitch

Next == Insert \/ Client \/ Over

Spec == Init /\ [][Next]_vars

-----------------------------------------------------------------------------
(* Properties                                                              *)

\* A read of an unchanging, fault-free listing that ends normally yielded every
\* record once and in order, in each pagination mode and whatever was retried
\* (iter_records, _iter_cursor_pages, _iter_numbered_pages).
StableReadIsExact ==
  pc = "complete" /\ glitches = {} /\ ToSet(db) = initial => out = db

\* A malformed, repeated or mode-switching answer never makes a short read end
\* normally.  Records that enter the listing during a read push none out of a cursor
\* read, and out of a numbered read at most as many as entered.  An empty page is
\* left out: the code takes it for the end (see CompleteReadIsWhole).
TrustedReadIsWhole ==
  pc = "complete" /\ "empty" \notin glitches =>
    Cardinality(initial \ ToSet(out))
      <= IF mode = "cursor" THEN 0 ELSE Cardinality(ToSet(db) \ initial)

\* A read that ends normally yielded every record that was listed when it began:
\* "An incomplete read is never checkpointed" (DESIGN.md), and run checkpoints
\* every read that does not raise.
CompleteReadIsWhole ==
  pc = "complete" => initial \subseteq ToSet(out)

\* The client never sends more than max_retries + 1 requests for each of at most
\* max_pages pages (_get, _fetch_page), whatever the server answers; every step of
\* the client but the last sends one, so every read ends.
RequestsBounded == requests <= MaxPages * (MaxRetries + 1)

-----------------------------------------------------------------------------
(* Behind the properties                                                   *)

TypeOK ==
  /\ db \in Seq(Nat) /\ \A i, j \in DOMAIN db : db[i] = db[j] => i = j
  /\ mode \in Modes
  /\ initial \subseteq ToSet(db)
  /\ pc \in {"first", "cursor", "numbered"} \cup Done
  /\ out \in Seq(Nat)
  /\ page \in Nat
  /\ total \in Nat \cup {NoTotal}
  /\ prevLen \in 0..Len(out)
  /\ cursor \in Nat \cup {NoCursor}
  /\ pages \in 0..MaxPages
  /\ requests \in Nat
  /\ attempt \in 0..MaxRetries

\* A new page allows for max_retries + 1 requests.
RequestsInv ==
  /\ RequestsBounded
  /\ Reading =>
       /\ requests <= pages * (MaxRetries + 1) + attempt
       /\ pages = MaxPages => attempt = 0

\* A cursor read stands behind a record of the listing; a numbered read of totalPages
\* pages covers what was listed at first; what the server may repeat has been seen.
PlaceInv ==
  /\ pc = "first" => out = <<>>
  /\ pc = "cursor" => mode = "cursor" /\ cursor \in ToSet(db)
  /\ pc = "numbered" =>
       /\ cursor = NoCursor
       /\ total # NoTotal => mode = "total" /\ total * PageLimit >= Cardinality(initial)
  /\ pc \in {"cursor", "numbered"} /\ prevLen > 0 =>
       SubSeq(out, Len(out) - prevLen + 1, Len(out)) \in sigs

\* Unless an empty page misled it, a read has yielded every record up to where it
\* stands that was listed at first, however many entered the listing before them.
WholeInv ==
  /\ TrustedReadIsWhole
  /\ Reading /\ "empty" \notin glitches =>
       /\ \A i \in DOMAIN db : i <= Offset /\ db[i] \in initial => db[i] \in ToSet(out)
       /\ pc = "numbered" => prevLen > 0

\* The read of a stable listing has yielded just what is listed up to where it stands.
ExactInv ==
  /\ StableReadIsExact
  /\ Reading /\ glitches = {} /\ ToSet(db) = initial =>
       out = SubSeq(db, 1, IF Offset < Len(db) THEN Offset ELSE Len(db))

SourceInv == TypeOK /\ RequestsInv /\ PlaceInv /\ WholeInv /\ ExactInv
=============================================================================
