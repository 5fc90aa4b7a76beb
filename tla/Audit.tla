------------------------------- MODULE Audit -------------------------------
(***************************************************************************)
(* The log of internal/audit: entries are appended, and the oldest tenth   *)
(* is dropped when the log is full.  Append is one step under Store.mu.    *)
(* An entry's id, which the code makes of its time and a random suffix, is *)
(* its number here.                                                        *)
(***************************************************************************)
EXTENDS Integers, Sequences

CONSTANTS
  Retention,   \* Config.AuditRetention; 0 is no limit
  Share        \* the part of a full log that is dropped: 10 in the code

ASSUME RetentionOK == Retention \in Nat /\ Share \in Nat \ {0, 1}

VARIABLES
  log,         \* Store.entries
  appended     \* how many entries Append has been given

-----------------------------------------------------------------------------
(* How many entries make room in a log of length n. *)
Dropped(n) == IF n \div Share < 1 THEN 1 ELSE n \div Share

IsFull == Retention > 0 /\ Len(log) >= Retention

LogInit == log = <<>> /\ appended = 0

AppendEntryFirst(e) ==  \* Mutation: the log is kept newest first
  /\ log' = <<[id |-> appended + 1, entry |-> e]>> \o log
  /\ appended' = appended + 1

AppendEntryDropsNewest(e) ==  \* Mutation: the other end makes room
  /\ log' = Append(IF IsFull THEN SubSeq(log, 1, Len(log) - Dropped(Len(log))) ELSE log,
                   [id |-> appended + 1, entry |-> e])
  /\ appended' = appended + 1

AppendEntry(e) ==
  /\ log' = Append(IF IsFull THEN SubSeq(log, Dropped(Len(log)) + 1, Len(log)) ELSE log,
                   [id |-> appended + 1, entry |-> e])
  /\ appended' = appended + 1

-----------------------------------------------------------------------------
(***************************************************************************)
(* The log is exactly the newest entries, oldest first, never more than    *)
(* Retention of them, and never so few that it had no need to drop one.    *)
(***************************************************************************)
NewestKept ==
  /\ Retention > 0 => Len(log) =< Retention
  /\ \A i \in 1 .. Len(log) : log[i].id = appended - Len(log) + i
  /\ Len(log) < appended => Retention > 0 /\ Len(log) > Retention - Dropped(Retention)
=============================================================================
