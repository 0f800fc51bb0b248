----------------------------- MODULE HttpClient -----------------------------
(***************************************************************************)
(* CHttpClient: one request at a time over a socket of its own, answered in*)
(* pieces that Process reads one by one.  A client is a record, and the    *)
(* functions of the class are operators from a client to the next one, so  *)
(* that ServerLister can call several in a step.                           *)
(*                                                                         *)
(* An answer is a sequence of tokens, one of which is the line end.  Of the*)
(* network a client sees how far a request gets, and how many tokens there *)
(* are for each recv; none stands for the end, an error and the timeout.   *)
(***************************************************************************)
EXTENDS Integers, Sequences, FiniteSetsExt

CONSTANTS
  Answers,    \* what the host of the requests may answer
  LineEnd,    \* the token "\r\n"
  MaxSockets  \* how many sockets the process can have open

VARIABLES
  http  \* the members of the client; what it returned last; sockets left to the
        \* process; what it has not read of the answer of the last host

\* How far a request gets.
Network == {"unresolved", "refused", "unsent", "sent"}

NewClient ==
  [socket |-> "none", connected |-> FALSE, status |-> "NONE", header |-> <<>>,
   data |-> <<>>, ok |-> TRUE, free |-> MaxSockets, unread |-> <<>>]

Disconnect(h) ==
  [h EXCEPT !.socket = "none", !.connected = FALSE,
            !.free = IF h.socket = "none" THEN @ ELSE @ + 1]

Failed(h) == [h EXCEPT !.ok = FALSE]

\* The socket the client still holds is overwritten.
Connect(h, net) ==
  LET s == [h EXCEPT !.socket = "open", !.free = @ - 1] IN
  IF h.free = 0 THEN Failed([h EXCEPT !.socket = "none"])
  ELSE CASE net = "unresolved" -> Failed(s)
         [] net = "refused"    -> Failed(Disconnect(s))
         [] OTHER -> [s EXCEPT !.socket = "connected", !.connected = TRUE, !.ok = TRUE]

\* A new exchange; of a request that was not sent nothing comes back.
Cleared_KeepsData(h, answer) ==
  [h EXCEPT !.header = <<>>, !.unread = answer]
Cleared(h, answer) ==
  [h EXCEPT !.header = <<>>, !.data = <<>>, !.unread = answer]

\* Get and Post; only a post may be one that waits for no answer.
Sent(h, hasResponse) ==
  IF hasResponse THEN [h EXCEPT !.status = "GET_DATA"] ELSE Disconnect(h)
Request(h, net, answer, hasResponse) ==
  LET c == Connect(h, net) IN
  CASE ~c.ok                  -> c
    [] c.ok /\ net = "unsent" -> Failed(Cleared(c, <<>>))
    [] c.ok /\ net = "sent"   -> Sent(Cleared(c, answer), hasResponse)

\* Where a blank line ends a header; the search does not stop at the first.
BlankLines(piece) == {i \in 1 .. Len(piece) - 1 : piece[i] = LineEnd /\ piece[i + 1] = LineEnd}
HeaderEnd(piece) == Max(BlankLines(piece))

\* Process, when recv has n tokens for it.
FirstPiece(h, piece) ==
  IF BlankLines(piece) = {}
  THEN [Disconnect(h) EXCEPT !.status = "INVALID"]
  ELSE [h EXCEPT !.header = SubSeq(piece, 1, HeaderEnd(piece) - 1),
                 !.data = @ \o SubSeq(piece, HeaderEnd(piece) + 2, Len(piece))]
NextPiece(h, piece) == [h EXCEPT !.data = @ \o piece]
Receive(h, n) ==
  LET piece == SubSeq(h.unread, 1, n)
      rest  == [h EXCEPT !.unread = SubSeq(@, n + 1, Len(@))] IN
  CASE h.status # "GET_DATA"           -> h
    [] h.status = "GET_DATA" /\ n = 0 -> [Disconnect(h) EXCEPT !.status = "GOT_DATA"]
    [] OTHER -> IF h.header = <<>> THEN FirstPiece(rest, piece) ELSE NextPiece(rest, piece)

\* The tokens recv may have: any number of those sent, of a socket that is connected.
Pieces(h) == IF h.socket = "connected" THEN 0 .. Len(h.unread) ELSE {0}

\* The destructor looks at m_bConnected, not at the socket; of the members nothing is left.
Delete(h) ==
  [NewClient EXCEPT !.status = "DELETED",
                    !.free = IF h.connected THEN Disconnect(h).free ELSE h.free]

Init == http = NewClient
InUse == http.status # "DELETED"
Destroy == InUse /\ http' = Delete(http)
=============================================================================
