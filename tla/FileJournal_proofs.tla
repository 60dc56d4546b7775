-------------------------- MODULE FileJournal_proofs --------------------------
(***************************************************************************)
(* Theorems about FileJournal: as long as compact() runs on an idle        *)
(* journal and to its end and nothing is appended to a torn line, the two  *)
(* files are the log JournalLog promises, for any number of appends and    *)
(* crashes; and no line is corrupt but by an append to a torn one.         *)
(***************************************************************************)
EXTENDS FileJournal, SequenceTheorems, TLAPS

\* How the journal has to be used.
Tidy == ~DiesInCompact /\ ~CompactsLive /\ ~AppendsToTail

\* The records that wait, and a list of w as the queue keeps it.
Waits == ReadFrom(Base)

Listed(w, from) == [i \in DOMAIN w |-> [cursor |-> from + i - 1, record |-> w[i]]]

\* No line is garbage, the cursor lies within the log, and the queue's list
\* is what waits; it is empty while compact() runs.
JournalInv ==
  /\ TypeOK
  /\ lines \in Seq(Nat)
  /\ Base \in 0..Len(Content)
  /\ entries = IF loaded THEN Listed(Waits, Base) ELSE <<>>
  /\ step = "compacting" => entries = <<>>

-----------------------------------------------------------------------------
(* The sequences involved.                                                 *)

\* What a sequence holds from b on.
LEMMA Suffix ==
  ASSUME NEW s \in Seq(Nat), NEW b \in 0..Len(s)
  PROVE  /\ SubSeq(s, b + 1, Len(s)) \in Seq(Nat)
         /\ Len(SubSeq(s, b + 1, Len(s))) = Len(s) - b
         /\ \A i \in 1..(Len(s) - b) : SubSeq(s, b + 1, Len(s))[i] = s[b + i]
<1> DEFINE n == Len(s)
           t == SubSeq(s, b + 1, n)
<1>1. n \in Nat /\ b \in 0..n /\ \A i \in 1..n : s[i] \in Nat
  BY LenProperties, ElementOfSeq
<1> HIDE DEF n
<1>2. b + 1 \in Int /\ n \in Int /\ \A i \in (b + 1)..n : s[i] \in Nat
  BY <1>1
<1>3. /\ t \in Seq(Nat)
      /\ Len(t) = IF b + 1 <= n THEN n - (b + 1) + 1 ELSE 0
      /\ \A i \in 1..(n - (b + 1) + 1) : t[i] = s[b + 1 + i - 1]
  BY ONLY <1>2, SubSeqProperties
<1> HIDE DEF t
<1>4. t \in Seq(Nat) /\ Len(t) = n - b /\ \A i \in 1..(n - b) : t[i] = s[b + i]
  BY <1>1, <1>3
<1> QED
  BY <1>4 DEF n, t

\* Appending to a sequence appends to what it holds from b on.
LEMMA SuffixOfAppend ==
  ASSUME NEW s \in Seq(Nat), NEW x \in Nat, NEW b \in 0..Len(s)
  PROVE  SubSeq(Append(s, x), b + 1, Len(Append(s, x))) = Append(SubSeq(s, b + 1, Len(s)), x)
<1> DEFINE n == Len(s)
           a == Append(s, x)
           t == SubSeq(s, b + 1, n)
           u == SubSeq(a, b + 1, n + 1)
<1>1. n \in Nat /\ b \in 0..n /\ \A i \in 1..n : s[i] \in Nat
  BY LenProperties, ElementOfSeq
<1>2. a \in Seq(Nat) /\ Len(a) = n + 1 /\ a[n + 1] = x /\ \A i \in 1..n : a[i] = s[i]
  BY AppendProperties
<1> HIDE DEF n, a
<1>3. /\ t \in Seq(Nat) /\ Len(t) = n - b
      /\ \A i \in 1..(n - b) : t[i] = s[b + i]
  BY Suffix DEF n
<1>4. /\ u \in Seq(Nat) /\ Len(u) = n - b + 1
      /\ \A i \in 1..(n - b + 1) : u[i] = a[b + i]
  <2>1. a \in Seq(Nat) /\ b \in 0..Len(a)
    BY <1>1, <1>2
  <2>2. /\ SubSeq(a, b + 1, Len(a)) \in Seq(Nat)
        /\ Len(SubSeq(a, b + 1, Len(a))) = Len(a) - b
        /\ \A i \in 1..(Len(a) - b) : SubSeq(a, b + 1, Len(a))[i] = a[b + i]
    BY ONLY <2>1, Suffix
  <2>3. Len(a) - b = n - b + 1
    BY <1>1, <1>2
  <2> QED
    BY <1>2, <2>2, <2>3
<1> HIDE DEF t, u
<1>5. /\ Append(t, x) \in Seq(Nat) /\ Len(Append(t, x)) = n - b + 1
      /\ \A i \in 1..(n - b) : Append(t, x)[i] = t[i]
      /\ Append(t, x)[n - b + 1] = x
  BY <1>3, AppendProperties
<1>6. \A i \in 1..(n - b + 1) : u[i] = Append(t, x)[i]
  <2> SUFFICES ASSUME NEW i \in 1..(n - b + 1)
               PROVE  u[i] = Append(t, x)[i]
    OBVIOUS
  <2>1. CASE i = n - b + 1
    <3>1. b + i = n + 1
      BY <1>1, <2>1
    <3> QED
      BY <1>2, <1>4, <1>5, <2>1, <3>1
  <2>2. CASE i \in 1..(n - b)
    <3>1. b + i \in 1..n
      BY <1>1, <2>2
    <3> QED
      BY <1>2, <1>3, <1>4, <1>5, <2>2, <3>1
  <2>3. n \in Int /\ b \in Int
    BY <1>1
  <2>4. i = n - b + 1 \/ i \in 1..(n - b)
    BY ONLY <2>3, i \in 1..(n - b + 1)
  <2> QED
    BY ONLY <2>1, <2>2, <2>4
<1>7. u = Append(t, x)
  BY <1>4, <1>5, <1>6, SeqEqual
<1> QED
  BY <1>2, <1>7 DEF n, a, t, u

\* Appending a record appends it to the list, at the position behind it.
LEMMA ListedAppend ==
  ASSUME NEW w \in Seq(Nat), NEW x \in Nat, NEW from \in Nat
  PROVE  /\ Listed(w, from) \in Seq(Entry) /\ Len(Listed(w, from)) = Len(w)
         /\ Listed(Append(w, x), from) =
              Append(Listed(w, from), [cursor |-> from + Len(w), record |-> x])
<1> DEFINE n == Len(w)
           a == Append(w, x)
           e == [cursor |-> from + n, record |-> x]
           l == Listed(w, from)
           m == Listed(a, from)
<1>1. n \in Nat /\ DOMAIN w = 1..n /\ \A i \in 1..n : w[i] \in Nat
  BY LenProperties, ElementOfSeq
<1>2. a \in Seq(Nat) /\ Len(a) = n + 1 /\ a[n + 1] = x /\ \A i \in 1..n : a[i] = w[i]
  BY AppendProperties
<1>3. DOMAIN a = 1..(n + 1)
  BY <1>2, LenProperties
<1> HIDE DEF n, a
<1>4. l = [i \in 1..n |-> [cursor |-> from + i - 1, record |-> w[i]]]
  BY <1>1 DEF Listed
<1>5. m = [i \in 1..(n + 1) |-> [cursor |-> from + i - 1, record |-> a[i]]]
  BY <1>3 DEF Listed
<1>6. \A i \in 1..n : [cursor |-> from + i - 1, record |-> w[i]] \in Entry
  BY <1>1 DEF Entry
<1>7. \A i \in 1..(n + 1) : i = n + 1 \/ i \in 1..n
  BY <1>1
<1>8. \A i \in 1..(n + 1) : [cursor |-> from + i - 1, record |-> a[i]] \in Entry
  BY <1>1, <1>2, <1>7 DEF Entry
<1> HIDE DEF l, m
<1>9. l \in Seq(Entry) /\ Len(l) = n
  <2>1. l \in [1..n -> Entry]
    BY <1>4, <1>6
  <2>2. l \in Seq(Entry)
    BY <1>1, <2>1
  <2>3. Len(l) \in Nat /\ 1..Len(l) = 1..n
    BY <2>1, <2>2, LenProperties
  <2> QED
    BY <1>1, <2>2, <2>3
<1>10. m \in Seq(Entry) /\ Len(m) = n + 1
  <2>1. m \in [1..(n + 1) -> Entry]
    BY <1>5, <1>8
  <2>2. m \in Seq(Entry)
    BY <1>1, <2>1
  <2>3. Len(m) \in Nat /\ 1..Len(m) = 1..(n + 1)
    BY <2>1, <2>2, LenProperties
  <2> QED
    BY <1>1, <2>2, <2>3
<1>11. e \in Entry
  BY <1>1 DEF Entry
<1>12. /\ Append(l, e) \in Seq(Entry) /\ Len(Append(l, e)) = n + 1
       /\ \A i \in 1..n : Append(l, e)[i] = l[i]
       /\ Append(l, e)[n + 1] = e
  BY <1>9, <1>11, AppendProperties
<1>13. \A i \in 1..(n + 1) : m[i] = Append(l, e)[i]
  <2> SUFFICES ASSUME NEW i \in 1..(n + 1)
               PROVE  m[i] = Append(l, e)[i]
    OBVIOUS
  <2>1. CASE i = n + 1
    <3>1. from + i - 1 = from + n
      BY <1>1, <2>1
    <3> QED
      BY <1>2, <1>5, <1>12, <2>1, <3>1
  <2>2. CASE i \in 1..n
    BY <1>2, <1>4, <1>5, <1>12, <2>2
  <2> QED
    BY <1>7, <2>1, <2>2
<1>14. m = Append(l, e)
  BY <1>10, <1>12, <1>13, SeqEqual
<1> QED
  BY <1>9, <1>14 DEF n, a, l, m

\* The head of the list is the head of what waits; without it, the list is
\* that of the rest.
LEMMA ListedTail ==
  ASSUME NEW w \in Seq(Nat), w # <<>>, NEW from \in Nat
  PROVE  /\ Listed(w, from) # <<>>
         /\ Head(Listed(w, from)) = [cursor |-> from, record |-> Head(w)]
         /\ Tail(Listed(w, from)) = Listed(Tail(w), from + 1)
<1> DEFINE n == Len(w)
           l == Listed(w, from)
           r == Listed(Tail(w), from + 1)
<1>1. n \in Nat \ {0} /\ DOMAIN w = 1..n /\ Head(w) = w[1]
  BY EmptySeq, LenProperties
<1>2. l \in Seq(Entry) /\ Len(l) = n
  BY ListedAppend
<1>3. Tail(w) \in Seq(Nat) /\ Len(Tail(w)) = n - 1 /\ \A i \in 1..(n - 1) : Tail(w)[i] = w[i + 1]
  BY HeadTailProperties
<1>4. r \in Seq(Entry) /\ Len(r) = n - 1
  <2>1. from + 1 \in Nat /\ 0 \in Nat
    OBVIOUS
  <2>2. Tail(w) \in Seq(Nat)
    BY <1>3
  <2>3. r \in Seq(Entry) /\ Len(r) = Len(Tail(w))
    BY ONLY <2>1, <2>2, ListedAppend
  <2> QED
    BY <1>3, <2>3
<1>5. DOMAIN Tail(w) = 1..(n - 1)
  BY <1>3, LenProperties
<1> HIDE DEF n
<1>6. l = [i \in 1..n |-> [cursor |-> from + i - 1, record |-> w[i]]]
  BY <1>1 DEF Listed
<1>7. r = [i \in 1..(n - 1) |-> [cursor |-> (from + 1) + i - 1, record |-> Tail(w)[i]]]
  BY <1>5 DEF Listed
<1> HIDE DEF l, r
<1>8. l # <<>>
  BY <1>1, <1>2
<1>9. Head(l) = [cursor |-> from, record |-> Head(w)]
  <2>1. 1 \in 1..n /\ from + 1 - 1 = from
    BY <1>1
  <2>2. Head(l) = l[1]
    BY <1>2, <1>8
  <2> QED
    BY <1>1, <1>6, <2>1, <2>2
<1>10. /\ Tail(l) \in Seq(Entry) /\ Len(Tail(l)) = n - 1
       /\ \A i \in 1..(n - 1) : Tail(l)[i] = l[i + 1]
  BY <1>2, <1>8, HeadTailProperties
<1>11. \A i \in 1..(n - 1) : Tail(l)[i] = r[i]
  <2> SUFFICES ASSUME NEW i \in 1..(n - 1)
               PROVE  Tail(l)[i] = r[i]
    OBVIOUS
  <2>1. i + 1 \in 1..n /\ from + (i + 1) - 1 = (from + 1) + i - 1
    BY <1>1
  <2> QED
    BY <1>3, <1>6, <1>7, <1>10, <2>1
<1>12. Tail(l) = r
  BY <1>4, <1>10, <1>11, SeqEqual
<1> QED
  BY <1>8, <1>9, <1>12 DEF l, r

\* Without its first element it is what the sequence holds from b + 1 on.
LEMMA SuffixTail ==
  ASSUME NEW s \in Seq(Nat), NEW b \in Nat, b < Len(s)
  PROVE  /\ SubSeq(s, b + 1, Len(s)) # <<>>
         /\ SubSeq(s, b + 2, Len(s)) = Tail(SubSeq(s, b + 1, Len(s)))
<1> DEFINE n == Len(s)
           t == SubSeq(s, b + 1, n)
           r == SubSeq(s, (b + 1) + 1, n)
<1>1. n \in Nat /\ b \in 0..n /\ b + 1 \in 0..n
  BY LenProperties
<1>2. t \in Seq(Nat) /\ Len(t) = n - b /\ \A i \in 1..(n - b) : t[i] = s[b + i]
  BY <1>1, Suffix
<1>3. /\ r \in Seq(Nat) /\ Len(r) = n - (b + 1)
      /\ \A i \in 1..(n - (b + 1)) : r[i] = s[b + 1 + i]
  BY <1>1, Suffix
<1>4. (b + 1) + 1 = b + 2 /\ b < n
  OBVIOUS
<1> HIDE DEF n, t, r
<1>5. t # <<>>
  BY <1>1, <1>2, <1>4
<1>6. /\ Tail(t) \in Seq(Nat) /\ Len(Tail(t)) = n - (b + 1)
      /\ \A i \in 1..(n - (b + 1)) : Tail(t)[i] = t[i + 1]
  <2>1. /\ Tail(t) \in Seq(Nat) /\ Len(Tail(t)) = Len(t) - 1
        /\ \A i \in 1..(Len(t) - 1) : Tail(t)[i] = t[i + 1]
    BY <1>2, <1>5, HeadTailProperties
  <2>2. Len(t) - 1 = n - (b + 1)
    BY <1>1, <1>2
  <2> QED
    BY <2>1, <2>2
<1>7. \A i \in 1..(n - (b + 1)) : r[i] = Tail(t)[i]
  <2> SUFFICES ASSUME NEW i \in 1..(n - (b + 1))
               PROVE  r[i] = Tail(t)[i]
    OBVIOUS
  <2>1. i + 1 \in 1..(n - b) /\ b + (i + 1) = b + 1 + i
    BY <1>1
  <2> QED
    BY <1>2, <1>3, <1>6, <2>1
<1>8. r = Tail(t)
  BY <1>3, <1>6, <1>7, SeqEqual
<1> QED
  BY <1>4, <1>5, <1>8 DEF n, t, r

-----------------------------------------------------------------------------
(* The invariant.                                                          *)

\* What waits is a sequence of records, one for each line from Base on.
LEMMA WaitsTyped ==
  ASSUME NoRecords, JournalInv
  PROVE  /\ Content \in Seq(Nat) /\ Len(Content) \in Nat
         /\ Base \in Nat
         /\ Waits \in Seq(Nat) /\ Len(Waits) = Len(Content) - Base
<1>1. Content \in Seq(Nat)
  BY AppendProperties DEF JournalInv, Content
<1>2. Len(Content) \in Nat
  BY <1>1, LenProperties
<1>3. Base \in 0..Len(Content)
  BY DEF JournalInv
<1> QED
  BY <1>1, <1>2, <1>3, Suffix DEF Waits, ReadFrom

\* A record that reaches the log whole joins what waits, at its end.
LEMMA WaitsAppend ==
  ASSUME NoRecords, JournalInv, tail = Nothing, step = "idle",
         NEW r \in Nat
  PROVE  /\ Content = lines /\ Append(lines, r) \in Seq(Nat)
         /\ Len(Append(lines, r)) = Len(lines) + 1
         /\ SubSeq(Append(lines, r), cursor + 1, Len(Append(lines, r))) = Append(Waits, r)
<1>1. Content = lines /\ lines \in Seq(Nat) /\ Base = cursor /\ cursor \in 0..Len(lines)
  BY DEF JournalInv, Content, Base, NoRecords
<1>2. SubSeq(Append(lines, r), cursor + 1, Len(Append(lines, r))) = Append(Waits, r)
  BY <1>1, SuffixOfAppend DEF Waits, ReadFrom
<1> QED
  BY <1>1, <1>2, AppendProperties

LEMMA InitJournal ==
  ASSUME NoRecords, Init
  PROVE  JournalInv /\ Waits = <<>>
<1>1. /\ <<>> \in Seq(Nat) /\ <<>> \in Seq(Nat \cup {Garbage}) /\ <<>> \in Seq(Entry)
      /\ Len(<<>>) = 0
  OBVIOUS
<1>2. Content = <<>> /\ Base = 0
  BY DEF Init, Content, Base, NoRecords
<1>3. Waits = <<>>
  BY <1>1, <1>2, SubSeqEmpty DEF Waits, ReadFrom
<1>4. TypeOK
  BY <1>1 DEF Init, TypeOK
<1>5. lines \in Seq(Nat) /\ Base \in 0..Len(Content)
  BY <1>1, <1>2 DEF Init
<1>6. loaded = FALSE /\ entries = <<>>
  BY DEF Init
<1> QED
  BY <1>3, <1>4, <1>5, <1>6 DEF JournalInv

\* What a step makes of the files, the list and what waits.
LEMMA NextJournal ==
  ASSUME NoRecords, Tidy, JournalInv, [Next]_vars
  PROVE  JournalInv' /\ [Log!Next]_Log!vars
<1> USE NoRecords
<1>0. /\ TypeOK /\ lines \in Seq(Nat) /\ Base \in 0..Len(Content)
      /\ entries = IF loaded THEN Listed(Waits, Base) ELSE <<>>
      /\ step = "compacting" => entries = <<>>
  BY DEF JournalInv
<1>00. /\ Content \in Seq(Nat) /\ Len(Content) \in Nat /\ Base \in Nat
       /\ Waits \in Seq(Nat) /\ Len(Waits) = Len(Content) - Base
  BY WaitsTyped
<1>000. PICK r \in Nat : r = issued + 1
  BY <1>0 DEF TypeOK
<1>t. ~DiesInCompact /\ ~CompactsLive /\ ~AppendsToTail
  BY DEF Tidy
<1>l. \A w \in Seq(Nat), from \in Nat : Listed(w, from) \in Seq(Entry) /\ Len(Listed(w, from)) = Len(w)
  BY ListedAppend, 0 \in Nat
<1>e. <<>> \in Seq(Entry)
  OBVIOUS
<1>g. \A s \in Seq(Nat) : s \in Seq(Nat \cup {Garbage})
  OBVIOUS
<1>c. crashes + 1 \in Nat
  BY <1>0 DEF TypeOK
<1>1. CASE Load
  <2>1. /\ UNCHANGED <<lines, tail, cursor, step, issued, sent, crashes>>
        /\ loaded' = TRUE /\ step = "idle" /\ entries' = EntriesFrom(cursor)
    BY <1>1 DEF Load, files
  <2>2. Base = cursor /\ entries' = Listed(Waits, Base)
    BY <2>1 DEF Base, EntriesFrom, Listed, Waits
  <2>3. Content' = Content /\ Base' = Base /\ Waits' = Waits
    BY <2>1 DEF Content, Base, Waits, ReadFrom
  <2>4. entries' \in Seq(Entry)
    BY <1>00, <1>l, <2>2
  <2>5. TypeOK'
    BY <1>0, <2>1, <2>4 DEF TypeOK
  <2>6. JournalInv'
    BY <1>0, <2>1, <2>2, <2>3, <2>5 DEF JournalInv
  <2> QED
    BY <2>1, <2>3, <2>6 DEF Log!vars, Waits
<1>2. CASE AppendRecord
  <2>1. /\ tail = Nothing /\ step = "idle" /\ loaded
        /\ lines' = Append(lines, r) /\ tail' = Nothing /\ issued' = r
        /\ entries' = Append(entries, [cursor |-> cursor + Len(entries), record |-> r])
        /\ UNCHANGED <<cursor, loaded, step, sent, crashes>>
    BY <1>000, <1>2, <1>t DEF AppendRecord, MayAppend, Joined
  <2>2. /\ Append(lines, r) \in Seq(Nat) /\ Len(Append(lines, r)) = Len(lines) + 1
        /\ Content = lines
        /\ SubSeq(Append(lines, r), cursor + 1, Len(Append(lines, r))) = Append(Waits, r)
    BY <2>1, WaitsAppend
  <2>3. Base = cursor /\ Base' = cursor
    BY <2>1 DEF Base
  <2>4. Content' = Append(lines, r)
    BY <2>1 DEF Content
  <2>5. Waits' = Append(Waits, r)
    BY <2>1, <2>2, <2>3, <2>4 DEF Waits, ReadFrom
  <2>6. /\ Listed(Append(Waits, r), cursor) =
             Append(Listed(Waits, cursor), [cursor |-> cursor + Len(Waits), record |-> r])
        /\ Len(Listed(Waits, cursor)) = Len(Waits)
    BY ONLY <1>00, <2>3, ListedAppend, r \in Nat
  <2>7. entries' = Listed(Waits', Base')
    BY <1>0, <2>1, <2>3, <2>5, <2>6
  <2>8. Append(Waits, r) \in Seq(Nat)
    BY <1>00, AppendProperties
  <2>9. entries' \in Seq(Entry)
    <3>1. entries' = Listed(Append(Waits, r), cursor)
      BY <2>3, <2>5, <2>7
    <3> QED
      BY ONLY <1>00, <1>l, <2>3, <2>8, <3>1
  <2>10. lines' \in Seq(Nat) /\ lines' \in Seq(Nat \cup {Garbage})
    <3>1. lines' = Append(lines, r)
      BY <2>1
    <3> QED
      BY ONLY <1>g, <2>2, <3>1
  <2>11. TypeOK'
    BY <1>0, <2>1, <2>9, <2>10 DEF TypeOK
  <2>12. Base' \in 0..Len(Content')
    BY <1>0, <1>00, <2>2, <2>3, <2>4
  <2>13. JournalInv'
    BY <2>1, <2>7, <2>10, <2>11, <2>12 DEF JournalInv
  <2> QED
    BY <1>000, <2>1, <2>5, <2>13 DEF Log!Next, Log!Enter, Waits
<1>3. CASE AppendDies
  <2>1. /\ tail = Nothing /\ step = "idle"
        /\ issued' = r /\ crashes' = crashes + 1
        /\ loaded' = FALSE /\ entries' = <<>> /\ step' = "idle"
        /\ UNCHANGED <<cursor, sent>>
    BY <1>000, <1>3, <1>t DEF AppendDies, MayAppend, ProcessEnds
  <2>2. /\ Append(lines, r) \in Seq(Nat) /\ Len(Append(lines, r)) = Len(lines) + 1
        /\ Content = lines
        /\ SubSeq(Append(lines, r), cursor + 1, Len(Append(lines, r))) = Append(Waits, r)
    BY <2>1, WaitsAppend
  <2>3. Base = cursor /\ Base' = cursor
    BY <2>1 DEF Base
  <2>4. \/ tail' = Torn /\ lines' = lines
        \/ tail' = r /\ lines' = lines
        \/ tail' = Nothing /\ lines' = Append(lines, r)
    BY <1>000, <1>3, <2>1 DEF AppendDies, Joined
  <2>5. lines' \in Seq(Nat) /\ lines' \in Seq(Nat \cup {Garbage}) /\ tail' \in Nat \cup {Nothing, Torn}
    <3>1. lines' \in Seq(Nat) /\ tail' \in Nat \cup {Nothing, Torn}
      BY <1>0, <2>2, <2>4
    <3> QED
      BY <1>g, <3>1
  <2>6. TypeOK'
    BY <1>0, <1>e, <1>c, <2>1, <2>5 DEF TypeOK
  <2>7. CASE Content' = lines
    <3>1. Waits' = Waits
      BY <2>2, <2>3, <2>7 DEF Waits, ReadFrom
    <3>2. JournalInv'
      BY <1>0, <2>1, <2>2, <2>3, <2>5, <2>6, <2>7 DEF JournalInv
    <3> QED
      BY <1>000, <2>1, <3>1, <3>2 DEF Log!Next, Log!EnterLost, Waits
  <2>8. CASE Content' = Append(lines, r)
    <3>1. Waits' = Append(Waits, r)
      BY <2>1, <2>2, <2>3, <2>8 DEF Waits, ReadFrom
    <3>2. Base' \in 0..Len(Content')
      BY <1>0, <1>00, <2>2, <2>3, <2>8
    <3>3. JournalInv'
      BY <2>1, <2>5, <2>6, <3>2 DEF JournalInv
    <3> QED
      BY <1>000, <2>1, <3>1, <3>3 DEF Log!Next, Log!Enter, Waits
  <2> QED
    BY <2>4, <2>7, <2>8 DEF Content
<1>4. CASE SendHead
  <2>1. /\ loaded /\ step = "idle" /\ entries # <<>>
        /\ sent' = sent \cup {Head(entries).record}
        /\ UNCHANGED <<lines, tail, cursor, loaded, entries, step, issued, crashes>>
    BY <1>4 DEF SendHead, files, memory
  <2>2. Content' = Content /\ Base' = Base /\ Waits' = Waits
    BY <2>1 DEF Content, Base, Waits, ReadFrom
  <2>3. entries = Listed(Waits, Base) /\ Len(entries) = Len(Waits)
    BY <1>0, <1>00, <1>l, <2>1
  <2>4. Waits # <<>>
    BY <1>0, <1>00, <2>1, <2>3 DEF TypeOK
  <2>5. Head(entries).record = Head(Waits) /\ Head(Waits) \in Nat
    <3>1. Head(Listed(Waits, Base)) = [cursor |-> Base, record |-> Head(Waits)]
      BY ONLY <1>00, <2>4, ListedTail
    <3>2. Head(Waits) \in Nat
      BY <1>00, <2>4, HeadTailProperties
    <3> QED
      BY ONLY <2>3, <3>1, <3>2
  <2>6. TypeOK'
    BY <1>0, <2>1, <2>5 DEF TypeOK
  <2>7. JournalInv'
    BY <1>0, <2>1, <2>2, <2>6 DEF JournalInv
  <2> QED
    BY <2>1, <2>2, <2>4, <2>5, <2>7 DEF Log!Next, Log!Send, Waits
<1>5. CASE CommitHead
  <2>1. /\ loaded /\ step = "idle" /\ entries # <<>> /\ Head(entries).record \in sent
        /\ cursor' = Committed(Head(entries).cursor + 1) /\ entries' = Tail(entries)
        /\ UNCHANGED <<lines, tail, loaded, step, issued, sent, crashes>>
    BY <1>5 DEF CommitHead
  <2>2. Base = cursor /\ Base' = cursor' /\ Content' = Content /\ cursor \in Nat
    BY <1>0, <2>1 DEF Base, Content, TypeOK
  <2>3. entries = Listed(Waits, Base) /\ Len(entries) = Len(Waits)
    BY <1>0, <1>00, <1>l, <2>1
  <2>4. Waits # <<>>
    BY <1>0, <1>00, <2>1, <2>3 DEF TypeOK
  <2>5. /\ Head(entries).record = Head(Waits) /\ Head(entries).cursor = cursor
        /\ Tail(entries) = Listed(Tail(Waits), cursor + 1)
    <3>1. /\ Head(Listed(Waits, Base)) = [cursor |-> Base, record |-> Head(Waits)]
          /\ Tail(Listed(Waits, Base)) = Listed(Tail(Waits), Base + 1)
      BY ONLY <1>00, <2>4, ListedTail
    <3> QED
      BY ONLY <2>2, <2>3, <3>1
  <2>6. cursor' = cursor + 1
    BY <2>1, <2>2, <2>5 DEF Committed
  <2>7. Len(Waits) # 0
    BY <1>00, <2>4, EmptySeq
  <2>8. cursor < Len(Content)
    BY <1>0, <1>00, <2>2, <2>7
  <2>9. SubSeq(Content, cursor + 2, Len(Content)) = Tail(SubSeq(Content, cursor + 1, Len(Content)))
    BY ONLY <1>00, <2>2, <2>8, SuffixTail
  <2>10. Waits' = Tail(Waits) /\ (cursor + 1) + 1 = cursor + 2
    BY <2>2, <2>6, <2>9 DEF Waits, ReadFrom
  <2>11. Tail(Waits) \in Seq(Nat)
    BY <1>00, <2>4, HeadTailProperties
  <2>12. entries' = Listed(Waits', Base') /\ entries' \in Seq(Entry)
    <3>1. entries' = Listed(Tail(Waits), cursor + 1) /\ Waits' = Tail(Waits) /\ Base' = cursor + 1
      BY <2>1, <2>2, <2>5, <2>6, <2>10
    <3>2. cursor + 1 \in Nat
      BY <2>2
    <3>3. Listed(Tail(Waits), cursor + 1) \in Seq(Entry)
      BY ONLY <1>l, <2>11, <3>2
    <3> QED
      BY ONLY <3>1, <3>3
  <2>13. TypeOK'
    BY <1>0, <2>1, <2>2, <2>6, <2>12 DEF TypeOK
  <2>14. Base' \in 0..Len(Content')
    BY <1>00, <2>2, <2>6, <2>8
  <2>15. JournalInv'
    BY <1>0, <2>1, <2>12, <2>13, <2>14 DEF JournalInv
  <2> QED
    BY <2>1, <2>4, <2>5, <2>10, <2>15 DEF Log!Next, Log!Commit, Waits
<1>6. CASE CompactLog
  <2>1. /\ step = "idle" /\ entries = <<>>
        /\ lines' = SubSeq(lines, cursor + 1, Len(lines))
        /\ tail' = IF cursor > Len(lines) THEN Nothing ELSE tail
        /\ step' = "compacting"
        /\ UNCHANGED <<cursor, loaded, entries, issued, sent, crashes>>
    BY <1>6, <1>t DEF CompactLog
  <2>2. Base = cursor /\ Base' = 0 /\ cursor \in Nat /\ Len(lines) \in Nat
    BY <1>0, <2>1, LenProperties DEF Base, TypeOK
  <2>3. lines' \in Seq(Nat) /\ Content' = Waits
    <3>1. CASE cursor \in 0..Len(lines) /\ tail \in Nat
      <4>1. SubSeq(lines, cursor + 1, Len(lines)) \in Seq(Nat)
        BY <1>0, <3>1, Suffix
      <4>2. Waits = Append(SubSeq(lines, cursor + 1, Len(lines)), tail)
        BY <1>0, <2>2, <3>1, SuffixOfAppend DEF Waits, ReadFrom, Content
      <4>3. tail' = tail
        BY <2>1, <2>2, <3>1
      <4> QED
        BY <2>1, <3>1, <4>1, <4>2, <4>3 DEF Content
    <3>2. CASE tail \notin Nat
      <4>1. Content = lines /\ cursor \in 0..Len(lines)
        BY <1>0, <2>2, <3>2 DEF Content
      <4>2. SubSeq(lines, cursor + 1, Len(lines)) \in Seq(Nat) /\ tail' \notin Nat
        BY <1>0, <2>1, <3>2, <4>1, Suffix
      <4> QED
        BY <2>1, <2>2, <4>1, <4>2 DEF Waits, ReadFrom, Content
    <3>3. CASE cursor \notin 0..Len(lines) /\ tail \in Nat
      <4>1. Content = Append(lines, tail) /\ Len(Content) = Len(lines) + 1
        BY <1>0, <3>3, AppendProperties DEF Content
      <4>2. cursor = Len(lines) + 1 /\ cursor > Len(lines)
        BY <1>0, <2>2, <3>3, <4>1
      <4>3. Len(Waits) = 0
        BY <1>00, <2>2, <4>1, <4>2
      <4>4. Waits = <<>>
        BY <1>00, <4>3, EmptySeq
      <4>5. lines' = <<>>
        <5>1. cursor + 1 \in Int /\ Len(lines) \in Int /\ cursor + 1 > Len(lines)
          BY <2>2, <4>2
        <5> QED
          BY <2>1, <5>1, SubSeqEmpty
      <4>6. tail' = Nothing
        BY <2>1, <4>2
      <4> QED
        BY <4>4, <4>5, <4>6 DEF Content
    <3> QED
      BY <3>1, <3>2, <3>3
  <2>4. Waits' = Waits
    <3>1. SubSeq(Content', 1, Len(Content')) = Content'
      BY <1>00, <2>3, SubSeqFull
    <3>2. Base' + 1 = 1
      BY <2>2
    <3> QED
      BY <2>3, <3>1, <3>2 DEF Waits, ReadFrom
  <2>5. entries' = IF loaded' THEN Listed(Waits', Base') ELSE <<>>
    <3>1. CASE loaded
      <4>1. Listed(Waits, Base) = <<>> /\ Len(Listed(Waits, Base)) = Len(Waits)
        BY <1>0, <1>00, <1>l, <2>1, <3>1
      <4>2. Len(Waits) = 0
        BY <4>1
      <4>3. Listed(Waits, 0) \in Seq(Entry) /\ Len(Listed(Waits, 0)) = 0
        BY ONLY <1>00, <1>l, <4>2, 0 \in Nat
      <4>4. Listed(Waits, 0) = <<>>
        BY <4>3, EmptySeq
      <4> QED
        BY <2>1, <2>2, <2>4, <3>1, <4>4
    <3>2. CASE ~loaded
      BY <2>1, <3>2
    <3> QED
      BY <3>1, <3>2
  <2>6. lines' \in Seq(Nat \cup {Garbage}) /\ tail' \in Nat \cup {Nothing, Torn}
    BY <1>0, <2>1, <2>3 DEF TypeOK
  <2>7. TypeOK'
    BY <1>0, <2>1, <2>6 DEF TypeOK
  <2>8. Base' \in 0..Len(Content')
    BY <1>00, <2>2, <2>3, LenProperties
  <2>9. JournalInv'
    BY <2>1, <2>3, <2>5, <2>7, <2>8 DEF JournalInv
  <2> QED
    BY <2>1, <2>4, <2>9 DEF Log!vars, Waits
<1>7. CASE CompactCursor
  <2>1. /\ step = "compacting" /\ cursor' = 0 /\ step' = "idle" /\ entries = <<>>
        /\ UNCHANGED <<lines, tail, loaded, entries, issued, sent, crashes>>
    BY <1>0, <1>7 DEF CompactCursor
  <2>2. Base = 0 /\ Base' = 0 /\ Content' = Content
    BY <2>1 DEF Base, Content
  <2>3. Waits' = Waits
    BY <2>2 DEF Waits, ReadFrom
  <2>4. TypeOK'
    BY <1>0, <2>1 DEF TypeOK
  <2>5. JournalInv'
    BY <1>0, <2>1, <2>2, <2>3, <2>4 DEF JournalInv
  <2> QED
    BY <2>1, <2>3, <2>5 DEF Log!vars, Waits
<1>8. CASE Crash
  <2>1. /\ step = "idle" /\ step' = "idle" /\ loaded' = FALSE /\ entries' = <<>>
        /\ crashes' = crashes + 1
        /\ UNCHANGED <<lines, tail, cursor, issued, sent>>
    BY <1>8, <1>t DEF Crash, ProcessEnds, files
  <2>2. Base' = Base /\ Content' = Content
    BY <2>1 DEF Base, Content
  <2>3. Waits' = Waits
    BY <2>2 DEF Waits, ReadFrom
  <2>4. TypeOK'
    BY <1>0, <1>e, <1>c, <2>1 DEF TypeOK
  <2>5. JournalInv'
    BY <1>0, <2>1, <2>2, <2>4 DEF JournalInv
  <2> QED
    BY <2>1, <2>3, <2>5 DEF Log!vars, Waits
<1>9. CASE UNCHANGED vars
  <2>1. UNCHANGED <<lines, tail, cursor, loaded, entries, step, issued, sent, crashes>>
    BY <1>9 DEF vars, files, memory
  <2>2. Base' = Base /\ Content' = Content
    BY <2>1 DEF Base, Content
  <2>3. Waits' = Waits
    BY <2>2 DEF Waits, ReadFrom
  <2>4. TypeOK'
    BY <1>0, <2>1 DEF TypeOK
  <2>5. JournalInv'
    BY <1>0, <2>1, <2>2, <2>3, <2>4 DEF JournalInv
  <2> QED
    BY <2>1, <2>3, <2>5 DEF Log!vars, Waits
<1> QED
  BY <1>1, <1>2, <1>3, <1>4, <1>5, <1>6, <1>7, <1>8, <1>9 DEF Next

-----------------------------------------------------------------------------
(* The theorems.                                                           *)

LEMMA JournalInvariance ==
  ASSUME Tidy
  PROVE  Spec => []JournalInv
<1>1. Init => JournalInv
  BY NoRecords, InitJournal
<1>2. JournalInv /\ [Next]_vars => JournalInv'
  BY NoRecords, NextJournal
<1> QED
  BY <1>1, <1>2, PTL DEF Spec

\* The files and the queue's memory keep their types, over any number of
\* appends and crashes (FileJournal).
THEOREM JournalTyped ==
  ASSUME Tidy
  PROVE  Spec => []TypeOK
<1>1. JournalInv => TypeOK
  BY DEF JournalInv
<1> QED
  BY <1>1, JournalInvariance, PTL

\* The position take() computes for a record it appends is the one readFrom()
\* gives it after a restart.
THEOREM JournalListed ==
  ASSUME Tidy
  PROVE  Spec => []ListMatchesLog
<1>1. JournalInv => ListMatchesLog
  BY DEF JournalInv, ListMatchesLog, Base, Listed, Waits, EntriesFrom
<1> QED
  BY <1>1, JournalInvariance, PTL

\* What is in the log as long as nothing is appended to a torn line.
RecordsOnly ==
  /\ lines \in Seq(Nat) /\ tail \in Nat \cup {Nothing, Torn}
  /\ cursor \in Nat /\ issued \in Nat /\ entries \in Seq(Entry)

LEMMA NextRecordsOnly ==
  ASSUME NoRecords, ~AppendsToTail, RecordsOnly, [Next]_vars
  PROVE  RecordsOnly'
<1> USE DEF RecordsOnly
<1>e. <<>> \in Seq(Entry)
  OBVIOUS
<1>1. ASSUME MayAppend
      PROVE  /\ tail = Nothing /\ Joined(issued + 1) = issued + 1 /\ issued + 1 \in Nat
             /\ Append(lines, issued + 1) \in Seq(Nat)
  <2>1. tail = Nothing /\ issued + 1 \in Nat
    BY <1>1 DEF MayAppend
  <2>2. Append(lines, issued + 1) \in Seq(Nat)
    BY <2>1, AppendProperties
  <2> QED
    BY <2>1, <2>2 DEF Joined
<1>2. CASE AppendRecord
  <2>1. /\ lines' = Append(lines, issued + 1) /\ tail' = Nothing /\ cursor' = cursor
        /\ issued' = issued + 1 /\ lines' \in Seq(Nat) /\ issued' \in Nat
        /\ entries' = Append(entries, [cursor |-> cursor + Len(entries), record |-> issued + 1])
    BY <1>1, <1>2 DEF AppendRecord
  <2>2. [cursor |-> cursor + Len(entries), record |-> issued + 1] \in Entry
    BY LenProperties DEF Entry
  <2> QED
    BY <2>1, <2>2, AppendProperties
<1>3. CASE AppendDies
  <2>1. /\ cursor' = cursor /\ entries' = <<>> /\ issued' = issued + 1
        /\ \/ tail' = Torn /\ lines' = lines
           \/ tail' = issued + 1 /\ lines' = lines
           \/ tail' = Nothing /\ lines' = Append(lines, issued + 1)
    BY <1>1, <1>3 DEF AppendDies, ProcessEnds
  <2> QED
    BY <1>1, <1>3, <1>e, <2>1 DEF AppendDies
<1>4. CASE CommitHead
  <2>1. entries # <<>> /\ entries' = Tail(entries) /\ cursor' = Committed(Head(entries).cursor + 1)
        /\ UNCHANGED <<lines, tail, issued>>
    BY <1>4 DEF CommitHead
  <2>2. Head(entries) \in Entry /\ Tail(entries) \in Seq(Entry)
    BY <2>1, HeadTailProperties
  <2>3. Head(entries).cursor + 1 \in Nat
    BY <2>2 DEF Entry
  <2> QED
    BY <2>1, <2>2, <2>3 DEF Committed
<1>5. CASE CompactLog
  <2>1. SubSeq(lines, cursor + 1, Len(lines)) \in Seq(Nat)
    OBVIOUS
  <2> QED
    BY <1>5, <2>1 DEF CompactLog
<1>6. CASE Load
  <2> DEFINE s == ReadFrom(cursor)
  <2>1. Content \in Seq(Nat)
    BY AppendProperties DEF Content
  <2>2. s \in Seq(Nat)
    BY <2>1 DEF ReadFrom
  <2>3. DOMAIN s = 1..Len(s) /\ Len(s) \in Nat /\ \A i \in DOMAIN s : s[i] \in Nat
    BY <2>2
  <2> HIDE DEF s
  <2>4. [i \in DOMAIN s |-> [cursor |-> cursor + i - 1, record |-> s[i]]] \in Seq(Entry)
    <3>1. \A i \in 1..Len(s) : [cursor |-> cursor + i - 1, record |-> s[i]] \in Entry
      BY <2>3 DEF Entry
    <3> QED
      BY <2>3, <3>1, SeqDef
  <2> QED
    BY <1>6, <2>4 DEF Load, files, EntriesFrom, s
<1>7. CASE SendHead
  BY <1>7 DEF SendHead, files, memory
<1>8. CASE CompactCursor
  BY <1>8 DEF CompactCursor
<1>9. CASE Crash
  BY <1>9, <1>e DEF Crash, files, ProcessEnds
<1>10. CASE UNCHANGED vars
  BY <1>10 DEF vars, files, memory
<1> QED
  BY <1>2, <1>3, <1>4, <1>5, <1>6, <1>7, <1>8, <1>9, <1>10 DEF Next

\* A line that is no record comes from nothing but an append() after one that
\* was cut short (which the code does, storage.ts): neither a torn append nor a
\* compaction that a crash interrupts, or that runs while the queue holds
\* entries, makes one.
THEOREM JournalReadable ==
  ASSUME ~AppendsToTail
  PROVE  Spec => []Readable
<1>1. Init => RecordsOnly
  <2>1. <<>> \in Seq(Nat) /\ <<>> \in Seq(Entry)
    OBVIOUS
  <2> QED
    BY <2>1 DEF Init, RecordsOnly
<1>2. RecordsOnly /\ [Next]_vars => RecordsOnly'
  BY NoRecords, NextRecordsOnly
<1>3. RecordsOnly => Readable
  BY NoRecords DEF RecordsOnly, Readable, Corrupt
<1> QED
  BY <1>1, <1>2, <1>3, PTL DEF Spec

\* The two files are an ordered log that drops a record only after it was
\* sent: append(), readFrom(), commit() and compact() of FileJournal keep what
\* the Journal interface promises the queue.
THEOREM JournalIsImplemented ==
  ASSUME Tidy
  PROVE  Spec => ImplementsJournalLog
<1>1. Init => Log!Init
  BY NoRecords, InitJournal DEF Init, Log!Init, Waits
<1>2. JournalInv /\ [Next]_vars => [Log!Next]_Log!vars
  BY NoRecords, NextJournal
<1> QED
  BY <1>1, <1>2, JournalInvariance, PTL DEF Spec, ImplementsJournalLog, Log!Spec

=============================================================================
