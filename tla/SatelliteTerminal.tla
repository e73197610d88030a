------------------------- MODULE SatelliteTerminal -------------------------
(***************************************************************************)
(* The satellite terminal on its own serial port:                          *)
(* boards/rpi/rpi_satellite_terminal.cpp.  A query sends a statement and   *)
(* reads statements until one of the answer's type comes or time is up.    *)
(* The terminal says what it likes, when it likes; an answer names its     *)
(* type and not the query it belongs to.                                   *)
(***************************************************************************)
EXTENDS Naturals, Sequences

CONSTANTS
  Types,    \* the types of the terminal's statements
  NoType,
  MaxInbox  \* bound: statements in the port

ASSUME SatelliteAssumption == NoType \notin Types /\ MaxInbox \in Nat \ {0}

VARIABLES
  satOpen,  \* port_.is_open()
  inbox,    \* the port: statements that have come and were not read
  waiting   \* expected_type of the query that waits

satVars == <<satOpen, inbox, waiting>>

\* "cut": a part of a statement, or a garbled one, whose checksum is wrong.
\* Whether the fields of an answer are valid is left out: nothing uses them.
Statements == [type : Types, form : {"whole", "cut"}]

SatTypeOK ==
  /\ satOpen \in BOOLEAN
  /\ inbox \in Seq(Statements) /\ Len(inbox) <= MaxInbox
  /\ waiting \in Types \cup {NoType}

Closed == [satOpen |-> FALSE, inbox |-> <<>>, waiting |-> NoType]

SatInit ==
  /\ satOpen = Closed.satOpen
  /\ inbox = Closed.inbox
  /\ waiting = Closed.waiting

\* close, by the destructor or by the end of the process.
SatClose ==
  /\ satOpen' = Closed.satOpen
  /\ inbox' = Closed.inbox
  /\ waiting' = Closed.waiting

----------------------------------------------------------------------------
SatelliteOpen ==
  /\ satOpen' \in BOOLEAN
  /\ UNCHANGED <<inbox, waiting>>

Say ==
  /\ satOpen
  /\ Len(inbox) < MaxInbox
  /\ \E s \in Statements : inbox' = Append(inbox, s)
  /\ UNCHANGED <<satOpen, waiting>>

\* query_ic_info, query_device_info, query_signal_info: without a port, or
\* when the write fails, the query is over.
Query(q) ==
  /\ waiting' \in IF satOpen THEN {q, NoType} ELSE {NoType}
  /\ UNCHANGED <<satOpen, inbox>>

----------------------------------------------------------------------------
\* parse_statement: the checksum.
Parses(s) == s.form # "cut"

\* What is left of the port after a read that ended inside its head.
CutHead(rest) ==
  IF rest = <<>> THEN <<>> ELSE <<[Head(rest) EXCEPT !.form = "cut"]>> \o Tail(rest)

\* read_statement returns the first statement of what it has read, n
\* statements and perhaps a part of the next, and drops the others.  When
\* 500 ms end first it returns the part that it has (n = 0).
AfterRead(n) ==
  LET rest == SubSeq(inbox, n + 1, Len(inbox))
  IN {CutHead(rest)} \cup (IF n = 0 THEN {} ELSE {rest})

\* wait_for_response: one read.
Receive ==
  /\ waiting # NoType
  /\ inbox # <<>>
  /\ \E n \in 0..Len(inbox) :
       /\ inbox' \in AfterRead(n)
       /\ LET s == Head(inbox)
          IN IF n > 0 /\ Parses(s) /\ s.type = waiting
             THEN waiting' = NoType
             ELSE UNCHANGED waiting
  /\ UNCHANGED satOpen

\* The deadline is looked at only when nothing has come.
BugGiveUp ==
  /\ waiting # NoType /\ inbox = <<>>
  /\ waiting' = NoType
  /\ UNCHANGED <<satOpen, inbox>>

\* wait_for_response: the deadline.
GiveUp ==
  /\ waiting # NoType
  /\ waiting' = NoType
  /\ UNCHANGED <<satOpen, inbox>>
=============================================================================
