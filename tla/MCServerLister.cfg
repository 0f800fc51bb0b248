\* Answers that add the server, say it is banned, and one that makes an "Added" with
\* the latter, over a network that fails in three ways and cuts them anywhere; a clock
\* that starts over every three ticks, and both widths of unsigned long.  Two sockets
\* are left: one lost leaves one to recover with, two lost none.
SPECIFICATION ListerFairSpec
CONSTANTS
  Answers <- MCAnswers
  Added <- MCAdded
  Banned <- MCBanned
  Good <- MCGood
  LineEnd = "rn"
  MaxSockets = 2
  Interval = 2
  Wrap = 3
  Widths = {TRUE, FALSE}
CHECK_DEADLOCK FALSE
INVARIANTS
  ListedByTheList
  PostsApart
PROPERTIES
  Recovers
