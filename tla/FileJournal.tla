----------------------------- MODULE FileJournal -----------------------------
(***************************************************************************)
(* FileJournal (src/src/node/storage.ts): one record per line in a log     *)
(* file, the commit cursor in a file of its own, and compact(), which      *)
(* rewrites the one and then the other.  The client is the offline queue:  *)
(* it reads the journal once after a start, appends, sends the head and    *)
(* commits past it.  A crash can cut an append short, leaving part of a    *)
(* line or a whole one without its newline, and can fall between the two   *)
(* writes of compact().                                                    *)
(***************************************************************************)
EXTENDS Integers, SequencesExt

CONSTANTS
  Nothing,        \* what follows the last newline of a log that ends in one
  Torn,           \* part of a record
  Garbage,        \* a line that is no record: two pieces run together
  DiesInCompact,  \* the process may die between the writes of compact()
  CompactsLive,   \* compact() may run while the queue holds entries
  AppendsToTail,  \* append() may follow an append() that was cut short
  \* Bounds, for model checking.
  MaxIssued,      \* append() calls
  MaxCrashes      \* crashes

ASSUME NoRecords ==
  /\ Nothing \notin Nat /\ Torn \notin Nat /\ Garbage \notin Nat
  /\ Nothing # Torn /\ Nothing # Garbage /\ Torn # Garbage

ASSUME JournalSwitches ==
  DiesInCompact \in BOOLEAN /\ CompactsLive \in BOOLEAN /\ AppendsToTail \in BOOLEAN

ASSUME JournalBounds == MaxIssued \in Nat /\ MaxCrashes \in Nat

VARIABLES
  \* The files.
  lines,    \* the complete lines of <name>.jsonl
  tail,     \* what follows the last of them
  cursor,   \* <name>.cursor, 0 when absent
  \* The client's memory.
  loaded,   \* the queue has read the journal
  entries,  \* its list: [cursor, record]
  step,     \* compact() is between its two writes, or not
  \* The world.
  issued, sent, crashes

files  == <<lines, tail, cursor>>
memory == <<loaded, entries, step>>
vars   == <<files, memory, issued, sent, crashes>>

Entry == [cursor : Nat, record : Nat]

TypeOK ==
  /\ lines \in Seq(Nat \cup {Garbage})
  /\ tail \in Nat \cup {Nothing, Torn}
  /\ cursor \in Nat
  /\ loaded \in BOOLEAN
  /\ entries \in Seq(Entry)
  /\ step \in {"idle", "compacting"}
  /\ issued \in Nat
  /\ sent \subseteq Nat
  /\ crashes \in Nat

Init ==
  /\ lines = <<>> /\ tail = Nothing /\ cursor = 0
  /\ loaded = FALSE /\ entries = <<>> /\ step = "idle"
  /\ issued = 0 /\ sent = {} /\ crashes = 0

-----------------------------------------------------------------------------
(* Reading.                                                                *)

\* What the log holds: a torn last line is dropped, one that only lacks its
\* newline is a record like any other.
Content == IF tail \in Nat THEN Append(lines, tail) ELSE lines

\* The records from position `from` on, counted from 0.
ReadFrom(from) == SubSeq(Content, from + 1, Len(Content))

\* readFrom() throws for a line that is no record, unless it is the last.
Corrupt(from) == \E i \in DOMAIN lines : i > from /\ lines[i] = Garbage

\* Mutation of EntriesFrom: positions counted from the line before.
EntriesFromEarly(from) ==
  [i \in DOMAIN ReadFrom(from) |-> [cursor |-> from + i - 2, record |-> ReadFrom(from)[i]]]

\* The queue's list after ensureLoaded().
EntriesFrom(from) ==
  [i \in DOMAIN ReadFrom(from) |-> [cursor |-> from + i - 1, record |-> ReadFrom(from)[i]]]

Load ==
  /\ ~loaded /\ step = "idle" /\ ~Corrupt(cursor)
  /\ loaded' = TRUE
  /\ entries' = EntriesFrom(cursor)
  /\ UNCHANGED <<files, step, issued, sent, crashes>>

-----------------------------------------------------------------------------
(* append().                                                               *)

MayAppend ==
  /\ loaded /\ step = "idle"
  /\ issued < MaxIssued
  /\ AppendsToTail \/ tail = Nothing

\* The line that appending r completes: what a torn append left stands before
\* it.
Joined(r) == IF tail = Nothing THEN r ELSE Garbage

AppendRecord ==
  /\ MayAppend
  /\ lines' = Append(lines, Joined(issued + 1))
  /\ tail' = Nothing
  /\ issued' = issued + 1
  /\ entries' = Append(entries, [cursor |-> cursor + Len(entries), record |-> issued + 1])
  /\ UNCHANGED <<cursor, loaded, step, sent, crashes>>

ProcessEnds == loaded' = FALSE /\ entries' = <<>> /\ step' = "idle"

\* The process dies in the middle of the write.
AppendDies ==
  /\ MayAppend /\ crashes < MaxCrashes
  /\ \/ tail' = Torn /\ UNCHANGED lines
     \/ tail = Nothing /\ tail' = issued + 1 /\ UNCHANGED lines
     \/ tail' = Nothing /\ lines' = Append(lines, Joined(issued + 1))
  /\ issued' = issued + 1
  /\ crashes' = crashes + 1
  /\ ProcessEnds
  /\ UNCHANGED <<cursor, sent>>

-----------------------------------------------------------------------------
(* The commit cursor.                                                      *)

\* flush() has settled the head at FDMS ...
SendHead ==
  /\ loaded /\ step = "idle" /\ entries # <<>>
  /\ sent' = sent \cup {Head(entries).record}
  /\ UNCHANGED <<files, memory, issued, crashes>>

\* commit() only ever raises the cursor.
Committed(to) == IF to > cursor THEN to ELSE cursor

\* Mutation of CommitHead: the cursor moves before the head is settled.
CommitHeadUnsent ==
  /\ loaded /\ step = "idle" /\ entries # <<>>
  /\ cursor' = Committed(Head(entries).cursor + 1)
  /\ entries' = Tail(entries)
  /\ UNCHANGED <<lines, tail, loaded, step, issued, sent, crashes>>

\* ... and commits past it.
CommitHead ==
  /\ loaded /\ step = "idle" /\ entries # <<>>
  /\ Head(entries).record \in sent
  /\ cursor' = Committed(Head(entries).cursor + 1)
  /\ entries' = Tail(entries)
  /\ UNCHANGED <<lines, tail, loaded, step, issued, sent, crashes>>

-----------------------------------------------------------------------------
(* compact(): drop the committed lines, then reset the cursor.             *)

\* Mutation of CompactLog: the last committed line is kept.
CompactLogShort ==
  /\ step = "idle" /\ cursor > 0
  /\ CompactsLive \/ entries = <<>>
  /\ lines' = SubSeq(lines, cursor, Len(lines))
  /\ tail' = IF cursor > Len(lines) THEN Nothing ELSE tail
  /\ step' = "compacting"
  /\ UNCHANGED <<cursor, loaded, entries, issued, sent, crashes>>

\* Mutation of CompactLog: the rewritten log always ends in a newline.
CompactLogTerminated ==
  /\ step = "idle" /\ cursor > 0
  /\ CompactsLive \/ entries = <<>>
  /\ lines' = SubSeq(lines, cursor + 1, Len(lines)) \o
                (IF tail = Nothing \/ cursor > Len(lines) THEN <<>>
                 ELSE IF tail = Torn THEN <<Garbage>> ELSE <<tail>>)
  /\ tail' = Nothing
  /\ step' = "compacting"
  /\ UNCHANGED <<cursor, loaded, entries, issued, sent, crashes>>

CompactLog ==
  /\ step = "idle" /\ cursor > 0
  /\ CompactsLive \/ entries = <<>>
  /\ lines' = SubSeq(lines, cursor + 1, Len(lines))
  /\ tail' = IF cursor > Len(lines) THEN Nothing ELSE tail
  /\ step' = "compacting"
  /\ UNCHANGED <<cursor, loaded, entries, issued, sent, crashes>>

CompactCursor ==
  /\ step = "compacting"
  /\ cursor' = 0
  /\ step' = "idle"
  /\ UNCHANGED <<lines, tail, loaded, entries, issued, sent, crashes>>

Crash ==
  /\ crashes < MaxCrashes
  /\ loaded \/ step = "compacting"
  /\ DiesInCompact \/ step = "idle"
  /\ crashes' = crashes + 1
  /\ ProcessEnds
  /\ UNCHANGED <<files, issued, sent>>

-----------------------------------------------------------------------------
Next ==
  \/ Load \/ AppendRecord \/ AppendDies
  \/ SendHead \/ CommitHead
  \/ CompactLog \/ CompactCursor
  \/ Crash

Spec == Init /\ [][Next]_vars

-----------------------------------------------------------------------------
(* Properties.                                                             *)

\* Where the log is read from: compact() has dropped the committed lines
\* before it resets the cursor.
Base == IF step = "compacting" THEN 0 ELSE cursor

\* The queue's list is the journal's content from the cursor on, with the
\* positions readFrom() would give them: the positions take() computes as
\* committed() + pending.length are right, before and after a compaction.
ListMatchesLog == loaded /\ step = "idle" => entries = EntriesFrom(cursor)

\* As long as nothing is appended to a torn line, readFrom() finds no corrupt
\* one: compact() keeps it the last, so no restart is refused for it.
Readable == ~Corrupt(Base)

\* Nothing an append() put into the log is gone before it was sent, and what
\* waits keeps its order, over torn appends, crashes and compactions.
Log == INSTANCE JournalLog WITH waiting <- ReadFrom(Base)

ImplementsJournalLog == Log!Spec

=============================================================================
