---------------------------- MODULE ServerLister ----------------------------
(***************************************************************************)
(* CServerLister: every SERVER_LIST_TIMEOUT the server posts itself to a   *)
(* server list, and tells its operator what has come of it.  Process runs  *)
(* in every iteration of the main loop, between scripts that may hold the  *)
(* loop up, and does at most one recv of the client of HttpClient.         *)
(***************************************************************************)
EXTENDS Integers, SequencesExt

CONSTANTS
  Answers, LineEnd, MaxSockets,  \* as in HttpClient
  Added,     \* the data of the answers "Added"
  Banned,    \* the data of the answers "Banned"
  Good,      \* the answer of a list that adds this server
  Interval,  \* SERVER_LIST_TIMEOUT, in ticks
  Wrap,      \* the value the clock does not reach
  Widths     \* TRUE where unsigned long is wider than the clock, FALSE where not

ASSUME ServerListerAssumption ==
  /\ Good \in Answers /\ \A a \in Answers : a \in Seq({a[i] : i \in DOMAIN a})
  \* an answer begins with its status line
  /\ \A a \in Answers : a # <<>> => a[1] # LineEnd
  /\ MaxSockets \in Nat
  /\ Added # Banned /\ Added # <<>>
  /\ Wrap \in Nat \ {0} /\ Interval \in 1 .. Wrap - 1
  /\ Widths \subseteq BOOLEAN

VARIABLES
  http,            \* m_pHttpClient
  wide,            \* which build runs; it never changes
  clock,           \* SharedUtility::GetTime
  ulLastUpdate,    \* m_ulLastUpdate
  bWaitingForData, \* m_bWaitingForData
  sent,            \* which of m_bSentFailedMessage, ...Listed and ...Banned are set
  healthy,         \* from now on network and list work
  since,           \* history: ticks since the last post, or since the clock was 0, up to Wrap
  added            \* history: the list has said that it has added this server

listerVars == <<http, wide, clock, ulLastUpdate, bWaitingForData, sent, healthy, since, added>>

H == INSTANCE HttpClient

ListerInit ==
  /\ H!Init
  /\ wide \in Widths
  /\ clock \in 0 .. Wrap - 1
  /\ ulLastUpdate = 0
  /\ bWaitingForData = FALSE
  /\ sent = {}
  /\ healthy = FALSE
  /\ since = clock
  /\ added = FALSE

\* (ulTime - m_ulLastUpdate) >= SERVER_LIST_TIMEOUT, in both widths.
Due_NotWaiting ==
  /\ ~bWaitingForData
  /\ IF clock >= ulLastUpdate THEN clock - ulLastUpdate >= Interval
     ELSE wide \/ clock + Wrap - ulLastUpdate >= Interval
Due ==
  IF clock >= ulLastUpdate THEN clock - ulLastUpdate >= Interval
  ELSE wide \/ clock + Wrap - ulLastUpdate >= Interval

\* m_ulLastUpdate after a post, whether it has failed or not.
LastUpdate_OnlyPosted(c) == IF c.ok THEN clock ELSE ulLastUpdate
LastUpdate(c) == clock

\* What the list, or the network, makes of a post; of one that is not sent nothing comes.
Reply(net, answer) == [net |-> net, answer |-> answer]
Replies ==
  IF healthy THEN {Reply("sent", Good)}
  ELSE {Reply("sent", a) : a \in Answers} \cup {Reply(n, <<>>) : n \in H!Network \ {"sent"}}
Posted(r) == H!Request(http, r.net, r.answer, TRUE)

\* What follows a blank line of an answer begins like this.
Says(answer, data) ==
  \E i \in H!BlankLines(answer) : IsPrefix(data, SubSeq(answer, i + 2, Len(answer)))

\* What recv may return.  A list that works sends the header in one piece, and a
\* network that works brings all of the answer before the timeout of recv.
Pieces(c) ==
  IF ~healthy \/ c.socket # "connected" THEN H!Pieces(c)
  ELSE IF c.unread = <<>> THEN {0}
  ELSE {n \in 1 .. Len(c.unread) :
          c.header # <<>> \/ n = Len(c.unread) \/ H!BlankLines(SubSeq(c.unread, 1, n)) # {}}

\* The messages once the answer is there; any other than these two changes nothing.
Others == [listed |-> "banned", banned |-> "listed"]
Hear(message, known) == (known \cup {message}) \ {"failed", Others[message]}
Heard(data, known) ==
  CASE data = Added  -> Hear("listed", known)
    [] data = Banned -> Hear("banned", known)
    [] OTHER -> known

Process ==
  /\ H!InUse
  /\ since' = IF Due THEN 0 ELSE since
  /\ UNCHANGED <<wide, clock, healthy>>
  /\ \E r \in IF Due THEN Replies ELSE {Reply("sent", <<>>)} :
     LET p     == IF Due THEN Posted(r) ELSE http
         waits == bWaitingForData \/ (Due /\ p.ok)
         known == IF Due /\ ~p.ok THEN sent \cup {"failed"} ELSE sent IN
     /\ ulLastUpdate' = IF Due THEN LastUpdate(p) ELSE ulLastUpdate
     /\ added' = (added \/ (Due /\ p.ok /\ Says(r.answer, Added)))
     /\ IF waits THEN \E n \in Pieces(p) : http' = H!Receive(p, n) ELSE http' = p
     /\ LET ends == waits /\ http'.status = "GOT_DATA" IN
        /\ bWaitingForData' = (waits /\ ~ends)
        /\ sent' = IF ends THEN Heard(http'.data, known) ELSE known

\* When all works, an answer is there long before the next post.
Tick ==
  /\ H!InUse
  /\ ~(healthy /\ bWaitingForData /\ http.status = "GET_DATA")
  /\ clock' = (clock + 1) % Wrap
  /\ since' = IF since < Wrap THEN since + 1 ELSE since
  /\ UNCHANGED <<http, wide, ulLastUpdate, bWaitingForData, sent, healthy, added>>

BecomeHealthy ==
  /\ H!InUse /\ ~healthy
  /\ healthy' = TRUE
  /\ UNCHANGED <<http, wide, clock, ulLastUpdate, bWaitingForData, sent, since, added>>

\* CServer::OnUnload deletes the lister, which deletes its client.
OnUnload ==
  /\ H!Destroy
  /\ UNCHANGED <<wide, clock, ulLastUpdate, bWaitingForData, sent, healthy, since, added>>

ListerNext == Process \/ Tick \/ BecomeHealthy \/ OnUnload
ListerSpec == ListerInit /\ [][ListerNext]_listerVars
\* The main loop calls Process again and again, before the clock has gone all round.
ListerFairSpec == ListerSpec /\ SF_listerVars(Process) /\ WF_listerVars(Tick)
-----------------------------------------------------------------------------
\* The server takes itself for listed only if the list has said so, in the data of
\* one answer: however posts fail, overtake one another and are cut off, the pieces
\* of two answers do not make an "Added" that nobody sent.
ListedByTheList == "listed" \in sent => added

\* Posts are SERVER_LIST_TIMEOUT apart, failed ones as well, but where the clock has
\* started over and unsigned long is wider than it: Process posts whenever it finds it
\* Due, however often scripts let it.
PostsApart == Due => since >= Interval \/ (wide /\ clock < ulLastUpdate)

\* When network and list work, the server gets and stays listed, whatever it had been
\* waiting for: an answer that never came, or one without a header.  It has to have a
\* socket left, for every post that failed on the way may have lost one.
Recovers ==
  []H!InUse /\ <>(healthy /\ http.free > 0) => <>[]("listed" \in sent)

\* The same without a socket to spare.  It does not hold: while a name cannot be
\* resolved, every post loses a socket.
AlwaysRecovers == []H!InUse /\ <>healthy => <>[]("listed" \in sent)
=============================================================================
