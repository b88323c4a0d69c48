---------------------------- MODULE RealtimeExits ----------------------------
(***************************************************************************)
(* monitor_realtime_exits: the websocket that watches the symbols with an  *)
(* open position.  Books and trades arrive on one connection, made for the *)
(* symbols that were open then; the set is compared after every message.   *)
(***************************************************************************)
EXTENDS Integers, FiniteSets

CONSTANTS Traded, NoBook     \* symbols; the absence of a book

ASSUME ExitsAssumption == NoBook \notin {0, 1}

VARIABLES
    open,        \* symbols_provider(): symbols with an open position
    feed,        \* what the monitor does
    expected,    \* the symbols the connection was made for
    books,       \* latest_books: the connection each book came from
    epoch,       \* ghost: tells a connection from the one before
    tick         \* ghost: the connection of the book of the last tick

exitVars == <<open, feed, expected, books, epoch, tick>>

NoBooks == [s \in Traded |-> NoBook]

ExitsTypeOK ==
    /\ open \subseteq Traded /\ expected \subseteq Traded
    /\ feed \in {"top", "connecting", "streaming", "sleeping"}
    /\ books \in [Traded -> {NoBook, 0, 1}]
    /\ epoch \in {0, 1} /\ tick \in {NoBook, 0, 1}

ExitsInit ==
    /\ open = {} /\ feed = "top" /\ expected = {}
    /\ books = NoBooks /\ epoch = 0 /\ tick = NoBook

-----------------------------------------------------------------------------
(* Positions are opened and closed by others.                               *)

Positions ==
    /\ \E s \in Traded : open' \in {open \cup {s}, open \ {s}}
    /\ UNCHANGED <<feed, expected, books, epoch, tick>>

\* latest_books starts empty with every connection.
Emptied(b) == NoBooks

Prepare ==
    /\ feed = "top" /\ open # {}
    /\ feed' = "connecting"
    /\ expected' = open
    /\ books' = Emptied(books)
    /\ UNCHANGED <<open, epoch, tick>>

\* connect and subscribe, which both may raise.
Connected ==
    /\ feed = "connecting"
    /\ feed' = "streaming"
    /\ epoch' = 1 - epoch
    /\ tick' = NoBook
    /\ UNCHANGED <<open, expected, books>>

\* connect, subscribe or recv raised.
Broken ==
    /\ feed \in {"connecting", "streaming"}
    /\ feed' = "sleeping"
    /\ UNCHANGED <<open, expected, books, epoch, tick>>

Wake ==
    /\ feed = "sleeping"
    /\ feed' = "top"
    /\ UNCHANGED <<open, expected, books, epoch, tick>>

\* Mutant: only a silent connection is compared with the open positions.
StaysOnMessage == "streaming"

\* The connection is left when other symbols are open now.
Stays == IF open' = expected THEN "streaming" ELSE "sleeping"

\* parse_depth_quote: what is not a two-sided book that is not crossed is
\* dropped.
Message == {"book", "one-sided", "crossed", "other"}
Quote(m) == m = "book"

\* on_quote may close the position it is about.
Marked(s) == open' \in {open, open \ {s}}

Depth ==
    /\ feed = "streaming"
    /\ \E s \in expected, m \in Message :
          /\ Marked(s)
          /\ books' = IF Quote(m) THEN [books EXCEPT ![s] = epoch] ELSE books
    /\ feed' = Stays
    /\ UNCHANGED <<expected, epoch, tick>>

\* parse_trade_ticks: each trade comes with the book of its symbol, if any.
Trades ==
    /\ feed = "streaming"
    /\ \E s \in expected :
          /\ Marked(s)
          /\ tick' = books[s]
    /\ feed' = Stays
    /\ UNCHANGED <<expected, books, epoch>>

Silence ==
    /\ feed = "streaming"
    /\ feed' = IF open = expected THEN "streaming" ELSE "sleeping"
    /\ UNCHANGED <<open, expected, books, epoch, tick>>

Receive == Depth \/ Trades \/ Silence

ExitsNext == Positions \/ Prepare \/ Connected \/ Broken \/ Wake \/ Receive

\* The monitor is a loop: whatever it waits for has a timeout, and an exchange
\* that can be reached again and again is connected to at last.
ExitsFairness ==
    /\ WF_exitVars(Prepare) /\ WF_exitVars(Wake) /\ WF_exitVars(Receive \/ Broken)
    /\ SF_exitVars(Connected)

-----------------------------------------------------------------------------
(* Properties.                                                              *)

\* A trade is never marked with a book that an earlier connection left: what
\* happened while it was down is not known.
TickHasItsBook == feed = "streaming" => tick \in {NoBook, epoch}

\* A symbol whose position stays open is streamed, however busy the symbols
\* are that are streamed already.
ExposureIsStreamed ==
    \A s \in Traded :
        s \in open ~> s \notin open \/ (feed = "streaming" /\ s \in expected)
=============================================================================
