-------------------------- MODULE Cleaning_proofs --------------------------
(***************************************************************************)
(* What the loops of module JsonTexts compute, for texts of any length, by *)
(* induction on their length.                                              *)
(***************************************************************************)
EXTENDS Cleaning, Compositions_proofs, FiniteSetTheorems, SequenceTheorems

Text == Seq(Chars)

----------------------------------------------------------------------------
(* Loops over texts *)

\* Induction over texts: what holds for the empty text and stays true when a
\* character is added holds for all.
LEMMA TextInduction ==
    ASSUME NEW S, <<>> \in S,
           \A text \in Text, char \in Chars : text \in S => Append(text, char) \in S
    PROVE  \A text \in Text : text \in S
<1> DEFINE T == {n \in Nat : \A text \in Text : Len(text) = n => text \in S}
<1>1. 0 \in T
  BY EmptySeq DEF Text
<1>2. ASSUME NEW n \in Nat, n \in T PROVE n + 1 \in T
  <2> SUFFICES ASSUME NEW text \in Text, Len(text) = n + 1 PROVE text \in S
    OBVIOUS
  <2> DEFINE front == SubSeq(text, 1, n)
             last == text[n + 1]
  <2>1. front \in Text /\ Len(front) = n /\ last \in Chars
    BY DEF Text
  <2>2. text = Append(front, last)
    BY DEF Text
  <2>3. front \in S
    BY <1>2, <2>1
  <2> HIDE DEF front, last
  <2> QED
    BY <2>1, <2>2, <2>3
<1>3. \A n \in Nat : n \in T
  BY <1>1, <1>2, SetInduction
<1> QED
  BY <1>3 DEF Text

LEMMA StepsLen ==
    ASSUME NEW text \in Text, NEW step
    PROVE  Len(text) \in Nat /\ Len(Steps(text, step)) = Len(text)
  BY DEF Steps, Text

LEMMA ReadEmpty ==
    ASSUME NEW step, NEW start PROVE Read(<<>>, step, start) = start
<1>1. Len(Steps(<<>>, step)) = 0
  BY DEF Steps
<1> QED
  BY <1>1, ThroughSteps DEF Read, Outcome

LEMMA ReadAppend ==
    ASSUME NEW text \in Text, NEW char \in Chars, NEW step, NEW start
    PROVE  Read(Append(text, char), step, start) = step[char][Read(text, step, start)]
<1> DEFINE fs == Steps(text, step)
           gs == Steps(Append(text, char), step)
<1>1. Append(text, char) \in Text /\ Len(Append(text, char)) = Len(text) + 1
  BY DEF Text
<1>2. Len(fs) = Len(text) /\ Len(gs) = Len(text) + 1 /\ Len(text) \in Nat
  BY <1>1, StepsLen
<1>3. \A n \in 1 .. Len(text) : gs[n] = fs[n]
  BY <1>1, <1>2 DEF Steps, Text
<1>4. gs[Len(text) + 1] = step[char]
  BY <1>1, <1>2 DEF Steps, Text
<1> HIDE DEF fs, gs
<1>5. Outcome(gs, start) = gs[Len(gs)][Outcome(fs, start)]
  BY <1>2, <1>3, OutcomeAppend
<1> QED
  BY <1>2, <1>4, <1>5 DEF Read, fs, gs

LEMMA ReadConcat ==
    ASSUME NEW s \in Text, NEW t \in Text, NEW step, NEW start
    PROVE  Read(s \o t, step, start) = Read(t, step, Read(s, step, start))
<1> DEFINE P == {u \in Text : Read(s \o u, step, start) = Read(u, step, Read(s, step, start))}
<1>1. <<>> \in P
  <2>1. s \o <<>> = s /\ <<>> \in Text
    BY DEF Text
  <2> QED
    BY <2>1, ReadEmpty
<1>2. ASSUME NEW u \in Text, NEW char \in Chars, u \in P
      PROVE  Append(u, char) \in P
  <2>1. s \o u \in Text /\ Append(u, char) \in Text /\ s \o Append(u, char) = Append(s \o u, char)
    BY DEF Text
  <2>2. /\ Read(Append(s \o u, char), step, start) = step[char][Read(s \o u, step, start)]
        /\ Read(Append(u, char), step, Read(s, step, start))
              = step[char][Read(u, step, Read(s, step, start))]
    BY <2>1, ReadAppend
  <2> QED
    BY <1>2, <2>1, <2>2
<1>3. t \in P
  BY <1>1, <1>2, TextInduction
<1> QED
  BY <1>3

LEMMA ReadType ==
    ASSUME NEW V, NEW step \in [Chars -> [V -> V]], NEW start \in V, NEW text \in Text
    PROVE  Read(text, step, start) \in V
<1>1. \A n \in 1 .. Len(text) : Steps(text, step)[n] \in [V -> V]
  BY DEF Steps, Text
<1> QED
  BY <1>1, StepsLen, ThroughType DEF Read

\* A loop that has come to a place has read the text up to there.
LEMMA ReadPrefix ==
    ASSUME NEW s \in Text, NEW t \in Text, NEW step, NEW start, NEW n \in Nat,
           n <= Len(s), n <= Len(t), \A i \in 1 .. n : s[i] = t[i]
    PROVE  Through(Steps(s, step), start)[n] = Through(Steps(t, step), start)[n]
<1>1. \A i \in 1 .. n : Steps(s, step)[i] = Steps(t, step)[i]
  BY DEF Steps, Text
<1> QED
  BY <1>1, StepsLen, SamePrefix

----------------------------------------------------------------------------
(* Scanners *)

LEMMA ScanTypes ==
    /\ ScanJson \in [Chars -> [States -> States]]
    /\ ScanBoth \in [Chars -> [States -> States]]
    /\ Outside \in States
<1>1. ASSUME NEW char \in Chars, NEW state \in States
      PROVE  /\ ScanJson[char][state] \in States
             /\ ScanBoth[char][state] \in States
  BY DEF ScanJson, ScanBoth, States
<1> QED
  BY <1>1 DEF ScanJson, ScanBoth, Outside, States

\* The state of a scanner, from character to character.
LEMMA ScanSteps ==
    ASSUME NEW text \in Text, NEW step \in [Chars -> [States -> States]]
    PROVE  /\ Len(text) \in Nat
           /\ Scan(text, step)[0] = Outside
           /\ \A n \in 0 .. Len(text) : Scan(text, step)[n] \in States
           /\ \A n \in 1 .. Len(text) :
                 text[n] \in Chars /\ Scan(text, step)[n] = step[text[n]][Scan(text, step)[n - 1]]
           /\ Read(text, step, Outside) = Scan(text, step)[Len(text)]
<1>1. \A n \in 1 .. Len(text) : Steps(text, step)[n] = step[text[n]] /\ text[n] \in Chars
  BY DEF Steps, Text
<1>2. Len(Steps(text, step)) = Len(text) /\ Len(text) \in Nat
  BY StepsLen
<1>3. \A n \in 0 .. Len(text) : Scan(text, step)[n] \in States
  BY <1>1, <1>2, ScanTypes, ThroughType DEF Scan
<1> QED
  BY <1>1, <1>2, <1>3, ThroughSteps DEF Scan, Read, Outcome

\* A run of backslashes goes on at a backslash and ends at anything else.
LEMMA EscapedNext ==
    ASSUME NEW line, NEW i \in Nat \ {0}
    PROVE  /\ ~Escaped(line, 1)
           /\ Escaped(line, i + 1) <=> line[i] = Back /\ ~Escaped(line, i)
<1> DEFINE run(n) == {j \in 1 .. n - 1 : \A k \in j .. n - 1 : line[k] = Back}
<1>1. run(1) = {}
  OBVIOUS
<1>2. ASSUME NEW n \in Nat PROVE IsFiniteSet(run(n)) /\ Cardinality(run(n)) \in Nat
  <2>1. IsFiniteSet(1 .. n - 1)
    BY FS_Interval
  <2>2. IsFiniteSet(run(n))
    BY <2>1, FS_Subset
  <2> QED
    BY <2>2, FS_CardinalityType
<1>3. CASE line[i] = Back
  <2>1. run(i + 1) = run(i) \cup {i}
    BY <1>3
  <2>2. i \notin run(i)
    OBVIOUS
  <2> HIDE DEF run
  <2>3. Cardinality(run(i + 1)) = Cardinality(run(i)) + 1
    BY <1>2, <2>1, <2>2, FS_AddElement
  <2>4. Cardinality(run(i + 1)) % 2 = 1 <=> Cardinality(run(i)) % 2 # 1
    BY <1>2, <2>3
  <2> QED
    BY <1>1, <1>3, <2>4, FS_EmptySet DEF Escaped, run
<1>4. CASE line[i] # Back
  <2>1. run(i + 1) = {}
    BY <1>4
  <2> QED
    BY <1>1, <1>4, <2>1, FS_EmptySet DEF Escaped
<1> QED
  BY <1>3, <1>4

\* A quote that is not escaped opens or closes a string.
LEMMA InStringNext ==
    ASSUME NEW line, NEW i \in Nat \ {0}
    PROVE  /\ ~InString(line, 1)
           /\ InString(line, i + 1) <=>
                 (InString(line, i) <=> ~(line[i] = Quote /\ ~Escaped(line, i)))
<1> DEFINE quotes(n) == {j \in 1 .. n - 1 : line[j] = Quote /\ ~Escaped(line, j)}
<1>1. ~InString(line, 1)
  <2>1. quotes(1) = {}
    OBVIOUS
  <2> QED
    BY <2>1, FS_EmptySet DEF InString
<1>2. ASSUME NEW n \in Nat PROVE IsFiniteSet(quotes(n)) /\ Cardinality(quotes(n)) \in Nat
  <2>1. IsFiniteSet(1 .. n - 1)
    BY FS_Interval
  <2>2. IsFiniteSet(quotes(n))
    BY <2>1, FS_Subset
  <2> QED
    BY <2>2, FS_CardinalityType
<1>3. CASE line[i] = Quote /\ ~Escaped(line, i)
  <2>1. quotes(i + 1) = quotes(i) \cup {i}
    BY <1>3
  <2>2. i \notin quotes(i)
    OBVIOUS
  <2> HIDE DEF quotes
  <2>3. Cardinality(quotes(i + 1)) = Cardinality(quotes(i)) + 1
    BY <1>2, <2>1, <2>2, FS_AddElement
  <2>4. Cardinality(quotes(i + 1)) % 2 = 1 <=> Cardinality(quotes(i)) % 2 # 1
    BY <1>2, <2>3
  <2>5. InString(line, i + 1) <=> ~InString(line, i)
    BY <2>4 DEF InString, quotes
  <2> QED
    BY <1>1, <1>3, <2>5
<1>4. CASE ~(line[i] = Quote /\ ~Escaped(line, i))
  <2>1. quotes(i + 1) = quotes(i)
    BY <1>4
  <2>2. InString(line, i + 1) <=> InString(line, i)
    BY <2>1 DEF InString
  <2> QED
    BY <1>1, <1>4, <2>2
<1> QED
  BY <1>3, <1>4

\* The scanner of removeComments knows where strings are, and what is escaped.
LEMMA ScanJsonReads ==
    ASSUME NEW line \in Text, NEW n \in 0 .. Len(line)
    PROVE  /\ Scan(line, ScanJson)[n].inString <=> InString(line, n + 1)
           /\ Scan(line, ScanJson)[n].escaped <=> Escaped(line, n + 1)
<1> DEFINE s == Scan(line, ScanJson)
           P == {m \in Nat : m <= Len(line) => /\ s[m].inString <=> InString(line, m + 1)
                                               /\ s[m].escaped <=> Escaped(line, m + 1)}
<1>0. /\ s[0] = Outside /\ Len(line) \in Nat
      /\ \A m \in 0 .. Len(line) : s[m] \in States
      /\ \A m \in 1 .. Len(line) : line[m] \in Chars /\ s[m] = ScanJson[line[m]][s[m - 1]]
  BY ScanTypes, ScanSteps
<1> HIDE DEF s
<1>1. 0 \in P
  <2>1. ~InString(line, 1) /\ ~Escaped(line, 1)
    BY EscapedNext, InStringNext
  <2>2. ~s[0].inString /\ ~s[0].escaped
    BY <1>0 DEF Outside
  <2>3. 0 + 1 = 1
    OBVIOUS
  <2> QED
    BY <2>1, <2>2, <2>3
<1>2. ASSUME NEW m \in Nat, m \in P PROVE m + 1 \in P
  <2> SUFFICES ASSUME m + 1 <= Len(line)
               PROVE  /\ s[m + 1].inString <=> InString(line, (m + 1) + 1)
                      /\ s[m + 1].escaped <=> Escaped(line, (m + 1) + 1)
    OBVIOUS
  <2> DEFINE i == m + 1
  <2>1. /\ s[m] \in States /\ line[i] \in Chars /\ i \in Nat \ {0}
        /\ s[m].inString <=> InString(line, i)
        /\ s[m].escaped <=> Escaped(line, i)
        /\ s[i] = ScanJson[line[i]][s[m]]
    BY <1>0, <1>2
  <2>2. /\ Escaped(line, i + 1) <=> line[i] = Back /\ ~Escaped(line, i)
        /\ InString(line, i + 1) <=>
              (InString(line, i) <=> ~(line[i] = Quote /\ ~Escaped(line, i)))
    BY <2>1, EscapedNext, InStringNext
  <2> HIDE DEF i
  <2>4. s[i] = IF line[i] = Back /\ ~s[m].escaped THEN [s[m] EXCEPT !.escaped = TRUE]
               ELSE IF line[i] = Quote /\ ~s[m].escaped THEN [s[m] EXCEPT !.inString = ~@]
               ELSE [s[m] EXCEPT !.escaped = FALSE]
    BY <2>1 DEF ScanJson
  <2>5. /\ s[i].escaped <=> line[i] = Back /\ ~s[m].escaped
        /\ s[i].inString <=> (s[m].inString <=> ~(line[i] = Quote /\ ~s[m].escaped))
    BY <2>1, <2>4 DEF States, Back, Quote
  <2> QED
    BY <2>1, <2>2, <2>5 DEF i
<1>3. \A m \in Nat : m \in P
  <2> HIDE DEF P
  <2> QED
    BY <1>1, <1>2, SetInduction
<1> QED
  BY <1>0, <1>3 DEF s

----------------------------------------------------------------------------
(* Lines *)

Line == {line \in Text : \A i \in 1 .. Len(line) : line[i] # Break}

LEMMA LineEmpty == <<>> \in Text /\ <<>> \in Line
  BY DEF Text, Line

LEMMA LineAppend ==
    ASSUME NEW line \in Line, NEW char \in Chars \ {Break}
    PROVE  Append(line, char) \in Line
<1> DEFINE a == Append(line, char)
<1>1. /\ a \in Text /\ Len(a) = Len(line) + 1 /\ Len(line) \in Nat /\ a[Len(line) + 1] = char
      /\ \A i \in 1 .. Len(line) : a[i] = line[i]
  BY DEF Line, Text
<1>2. \A i \in 1 .. Len(line) : line[i] # Break
  BY DEF Line
<1> HIDE DEF a
<1>3. \A i \in 1 .. Len(a) : a[i] # Break
  BY <1>1, <1>2
<1>4. a \in Line
  BY <1>1, <1>3 DEF Line
<1> QED
  BY <1>4 DEF a

\* A text has one line at least, and none holds a break.
LEMMA LinesType ==
    ASSUME NEW text \in Text
    PROVE  Lines(text) \in Seq(Line) /\ Len(Lines(text)) \in Nat \ {0}
<1> DEFINE S == {t \in Text : Lines(t) \in Seq(Line) /\ Lines(t) # <<>>}
<1>1. <<>> \in S
  <2>1. Lines(<<>>) = <<<<>>>>
    BY ReadEmpty DEF Lines
  <2>2. ASSUME NEW l \in Line PROVE <<l>> \in Seq(Line) /\ <<l>> # <<>>
    OBVIOUS
  <2>3. Lines(<<>>) \in Seq(Line) /\ Lines(<<>>) # <<>>
    BY <2>1, <2>2, LineEmpty
  <2> QED
    BY <2>3, LineEmpty
<1>2. ASSUME NEW t \in Text, NEW char \in Chars, t \in S PROVE Append(t, char) \in S
  <2> DEFINE ls == Lines(t)
  <2>1. Append(t, char) \in Text /\ ls \in Seq(Line) /\ ls # <<>> /\ Line \subseteq Text
    BY <1>2 DEF Text, Line
  <2>2. Lines(Append(t, char)) = Split[char][ls]
    BY ReadAppend DEF Lines
  <2>3. ls \in Seq(Seq(Chars)) /\ Len(ls) \in 1 .. Len(ls) /\ ls[Len(ls)] \in Line
    BY <2>1 DEF Text
  <2> HIDE DEF ls
  <2>4. Split[char][ls] = IF char = Break THEN Append(ls, <<>>)
                          ELSE [ls EXCEPT ![Len(ls)] = Append(@, char)]
    BY <2>3 DEF Split
  <2>5. CASE char = Break
    BY <2>1, <2>2, <2>4, <2>5, LineEmpty
  <2>6. CASE char # Break
    <3>1. Append(ls[Len(ls)], char) \in Line
      BY <2>3, <2>6, LineAppend
    <3>2. [ls EXCEPT ![Len(ls)] = Append(@, char)] = [ls EXCEPT ![Len(ls)] = Append(ls[Len(ls)], char)]
      BY <2>3
    <3>3. [ls EXCEPT ![Len(ls)] = Append(ls[Len(ls)], char)] \in Seq(Line) \ {<<>>}
      BY <2>1, <2>3, <3>1
    <3> QED
      BY <2>1, <2>2, <2>4, <2>6, <3>2, <3>3
  <2> QED
    BY <2>5, <2>6
<1>3. text \in S
  <2> HIDE DEF S
  <2> QED
    BY <1>1, <1>2, TextInduction
<1> QED
  BY <1>3

LEMMA AppendUpdate ==
    ASSUME NEW T, NEW s \in Seq(T), NEW x \in T, NEW y \in T
    PROVE  [Append(s, x) EXCEPT ![Len(s) + 1] = y] = Append(s, y)
<1> DEFINE a == [Append(s, x) EXCEPT ![Len(s) + 1] = y]
           b == Append(s, y)
<1>1. a \in Seq(T) /\ b \in Seq(T) /\ Len(a) = Len(s) + 1 /\ Len(b) = Len(s) + 1 /\ Len(s) \in Nat
  OBVIOUS
<1>2. ASSUME NEW i \in 1 .. Len(s) + 1 PROVE a[i] = b[i]
  <2>1. i \in DOMAIN Append(s, x)
    OBVIOUS
  <2>2. CASE i = Len(s) + 1
    BY <2>1, <2>2
  <2>3. CASE i # Len(s) + 1
    <3>1. a[i] = Append(s, x)[i]
      BY <2>1, <2>3
    <3>2. i \in 1 .. Len(s)
      BY <2>3
    <3> QED
      BY <3>1, <3>2
  <2> QED
    BY <2>2, <2>3
<1> HIDE DEF a, b
<1>3. a = b
  BY <1>1, <1>2, SeqEqual
<1> QED
  BY <1>3 DEF a, b

\* Reading a line adds its characters to the last line.
LEMMA LineRead ==
    ASSUME NEW ls \in Seq(Text), NEW line \in Line
    PROVE  Read(line, Split, Append(ls, <<>>)) = Append(ls, line)
<1> DEFINE S == {t \in Text : t \in Line => Read(t, Split, Append(ls, <<>>)) = Append(ls, t)}
<1>1. <<>> \in S
  BY ReadEmpty, LineEmpty
<1>2. ASSUME NEW t \in Text, NEW char \in Chars, t \in S PROVE Append(t, char) \in S
  <2> SUFFICES ASSUME Append(t, char) \in Line
               PROVE  Read(Append(t, char), Split, Append(ls, <<>>)) = Append(ls, Append(t, char))
    BY DEF Text
  <2>1. t \in Line /\ char # Break
    <3> DEFINE a == Append(t, char)
    <3>1. /\ Len(a) = Len(t) + 1 /\ Len(t) \in Nat /\ a[Len(t) + 1] = char
          /\ \A i \in 1 .. Len(t) : a[i] = t[i]
      BY DEF Text
    <3>2. \A i \in 1 .. Len(a) : a[i] # Break
      BY DEF Line
    <3> HIDE DEF a
    <3>3. \A i \in 1 .. Len(t) : t[i] # Break
      BY <3>1, <3>2
    <3>4. char # Break
      BY <3>1, <3>2
    <3> QED
      BY <3>3, <3>4 DEF Line
  <2>2. Read(Append(t, char), Split, Append(ls, <<>>)) = Split[char][Append(ls, t)]
    <3>1. Read(Append(t, char), Split, Append(ls, <<>>))
             = Split[char][Read(t, Split, Append(ls, <<>>))]
      BY ReadAppend
    <3> QED
      BY <1>2, <2>1, <3>1
  <2> DEFINE lt == Append(ls, t)
  <2>3. lt \in Seq(Seq(Chars)) /\ Len(lt) = Len(ls) + 1 /\ lt[Len(lt)] = t
    BY DEF Text
  <2>4. Split[char][lt] = [lt EXCEPT ![Len(lt)] = Append(@, char)]
    <3> HIDE DEF lt
    <3> QED
      BY <2>1, <2>3 DEF Split
  <2>5. [lt EXCEPT ![Len(lt)] = Append(@, char)] = Append(ls, Append(t, char))
    <3>1. Append(t, char) \in Text /\ Len(lt) = Len(ls) + 1 /\ lt[Len(lt)] = t
      BY <2>3 DEF Text
    <3>2. ASSUME NEW x \in Text
          PROVE  [Append(ls, t) EXCEPT ![Len(ls) + 1] = x] = Append(ls, x)
      BY AppendUpdate
    <3> QED
      BY <3>1, <3>2
  <2> QED
    BY <2>2, <2>4, <2>5
<1>3. line \in S
  <2>1. line \in Text
    BY DEF Line
  <2> HIDE DEF S
  <2> QED
    BY <1>1, <1>2, <2>1, TextInduction
<1> QED
  BY <1>3 DEF Line

\* Lines are joined one by one.
LEMMA JoinedAppend ==
    ASSUME NEW line \in Text
    PROVE  /\ Joined(<<line>>) = line
           /\ \A ls \in Seq(Text) \ {<<>>} :
                 /\ Joined(ls) \in Text
                 /\ Joined(Append(ls, line)) = Joined(ls) \o <<Break>> \o line
<1>0. ASSUME NEW l \in Text PROVE AddLine(l) \in [Text -> Text]
  <2>1. Break \in Chars
    BY DEF Chars
  <2> QED
    BY <2>1 DEF AddLine, Text
<1>1. Joined(<<line>>) = line
  <2> DEFINE fs == [n \in 1 .. Len(<<line>>) - 1 |-> AddLine(<<line>>[n + 1])]
  <2>1. Len(<<line>>) = 1 /\ <<line>>[1] = line
    OBVIOUS
  <2>2. Len(fs) = 0
    BY <2>1
  <2> HIDE DEF fs
  <2>3. Outcome(fs, line) = line
    BY <2>2, ThroughSteps DEF Outcome
  <2> QED
    BY <2>1, <2>3 DEF Joined, fs
<1>2. ASSUME NEW ls \in Seq(Text) \ {<<>>}
      PROVE  /\ Joined(ls) \in Text
             /\ Joined(Append(ls, line)) = Joined(ls) \o <<Break>> \o line
  <2> DEFINE gs == Append(ls, line)
             fl == [n \in 1 .. Len(ls) - 1 |-> AddLine(ls[n + 1])]
             fg == [n \in 1 .. Len(gs) - 1 |-> AddLine(gs[n + 1])]
  <2>1. /\ Len(ls) \in Nat \ {0} /\ Len(gs) = Len(ls) + 1 /\ ls[1] \in Text
        /\ gs[1] = ls[1] /\ gs[Len(ls) + 1] = line
        /\ \A n \in 1 .. Len(ls) : gs[n] = ls[n] /\ ls[n] \in Text
    OBVIOUS
  <2> HIDE DEF gs
  <2>2. Len(fl) = Len(ls) - 1 /\ Len(fg) = Len(ls)
    BY <2>1
  <2>3. \A n \in 1 .. Len(fl) : fl[n] = fg[n] /\ fl[n] \in [Text -> Text]
    BY <1>0, <2>1, <2>2
  <2>4. fg[Len(fg)] = AddLine(line)
    BY <2>1, <2>2
  <2> HIDE DEF fl, fg
  <2>5. Outcome(fl, ls[1]) \in Text
    <3>1. Len(fl) \in Nat /\ ls[1] \in Text /\ \A n \in 1 .. Len(fl) : fl[n] \in [Text -> Text]
      BY <2>1, <2>2, <2>3
    <3> QED
      BY <3>1, ThroughType
  <2>6. Outcome(fg, ls[1]) = fg[Len(fg)][Outcome(fl, ls[1])]
    BY <2>1, <2>2, <2>3, OutcomeAppend
  <2>7. Joined(ls) = Outcome(fl, ls[1]) /\ Joined(gs) = Outcome(fg, gs[1])
    BY DEF Joined, fl, fg
  <2> QED
    BY <2>1, <2>4, <2>5, <2>6, <2>7 DEF AddLine, Text, gs
<1> QED
  BY <1>1, <1>2

\* Induction over the lines of a text.
LEMMA LinesInduction ==
    ASSUME NEW T, NEW S, \A line \in T : <<line>> \in S,
           \A ls \in Seq(T) \ {<<>>}, line \in T : ls \in S => Append(ls, line) \in S
    PROVE  \A ls \in Seq(T) \ {<<>>} : ls \in S
<1> DEFINE P == {n \in Nat : \A ls \in Seq(T) : Len(ls) = n + 1 => ls \in S}
<1>1. 0 \in P
  <2> SUFFICES ASSUME NEW ls \in Seq(T), Len(ls) = 1 PROVE ls \in S
    OBVIOUS
  <2>1. ls = <<ls[1]>> /\ ls[1] \in T
    OBVIOUS
  <2> QED
    BY <2>1
<1>2. ASSUME NEW n \in Nat, n \in P PROVE n + 1 \in P
  <2> SUFFICES ASSUME NEW ls \in Seq(T), Len(ls) = (n + 1) + 1 PROVE ls \in S
    OBVIOUS
  <2> DEFINE front == SubSeq(ls, 1, n + 1)
             last == ls[(n + 1) + 1]
  <2>1. front \in Seq(T) /\ Len(front) = n + 1 /\ front # <<>> /\ last \in T
    OBVIOUS
  <2>2. ls = Append(front, last)
    OBVIOUS
  <2>3. front \in S
    BY <1>2, <2>1
  <2> HIDE DEF front, last
  <2> QED
    BY <2>1, <2>2, <2>3
<1>3. \A n \in Nat : n \in P
  <2> HIDE DEF P
  <2> QED
    BY <1>1, <1>2, SetInduction
<1>4. ASSUME NEW ls \in Seq(T) \ {<<>>} PROVE ls \in S
  <2>1. Len(ls) - 1 \in Nat /\ Len(ls) = (Len(ls) - 1) + 1
    OBVIOUS
  <2> QED
    BY <1>3, <2>1
<1> QED
  BY <1>4

\* Splitting gives back the lines that were joined.
LEMMA LinesJoined ==
    ASSUME NEW ls \in Seq(Line) \ {<<>>}
    PROVE  Joined(ls) \in Text /\ Lines(Joined(ls)) = ls
<1> DEFINE S == {l \in Seq(Line) : Joined(l) \in Text /\ Lines(Joined(l)) = l}
<1>0. Line \subseteq Text /\ Break \in Chars
  BY DEF Line, Chars
<1>1. ASSUME NEW line \in Line PROVE <<line>> \in S
  <2>1. Joined(<<line>>) = line
    BY <1>0, JoinedAppend
  <2>2. Append(<<>>, <<>>) = <<<<>>>> /\ Append(<<>>, line) = <<line>> /\ <<>> \in Seq(Text)
    OBVIOUS
  <2>3. Lines(line) = <<line>>
    BY <2>2, LineRead DEF Lines
  <2> QED
    BY <1>0, <2>1, <2>3
<1>2. ASSUME NEW l \in Seq(Line) \ {<<>>}, NEW line \in Line, l \in S PROVE Append(l, line) \in S
  <2> DEFINE j == Joined(l)
  <2>1. l \in Seq(Text) \ {<<>>} /\ line \in Text /\ j \in Text /\ Lines(j) = l
    BY <1>0, <1>2
  <2>2. Joined(Append(l, line)) = j \o <<Break>> \o line
    BY <2>1, JoinedAppend
  <2> HIDE DEF j
  <2>3. /\ Append(j, Break) \in Text /\ j \o <<Break>> = Append(j, Break)
        /\ Append(j, Break) \o line \in Text
    <3>1. Append(j, Break) \in Text /\ j \o <<Break>> = Append(j, Break)
      BY <1>0, <2>1 DEF Text
    <3> QED
      BY <2>1, <3>1 DEF Text
  <2>4. Lines(Append(j, Break)) = Append(l, <<>>)
    <3>1. Lines(Append(j, Break)) = Split[Break][l]
      BY <1>0, <2>1, ReadAppend DEF Lines
    <3> QED
      BY <1>0, <2>1, <3>1 DEF Split, Text
  <2>5. Lines(Append(j, Break) \o line) = Append(l, line)
    <3> DEFINE k == Append(j, Break)
    <3>1. ASSUME NEW start
          PROVE  Read(k \o line, Split, start) = Read(line, Split, Read(k, Split, start))
      BY <2>1, <2>3, ReadConcat
    <3>2. Lines(k \o line) = Read(line, Split, Lines(k))
      BY <3>1 DEF Lines
    <3>3. Lines(k \o line) = Read(line, Split, Append(l, <<>>))
      BY <2>4, <3>2
    <3> QED
      BY <2>1, <3>3, LineRead
  <2>6. Joined(Append(l, line)) = Append(j, Break) \o line
    BY <2>2, <2>3
  <2> HIDE DEF j
  <2>7. Append(l, line) \in Seq(Line)
    OBVIOUS
  <2> QED
    BY <2>3, <2>5, <2>6, <2>7
<1> QED
  <2> HIDE DEF S
  <2>1. ls \in S
    BY <1>1, <1>2, LinesInduction
  <2> QED
    BY <2>1 DEF S

----------------------------------------------------------------------------
(* Cuts *)

\* A cut keeps what stands before the first of the places it is offered.
LEMMA CutKeeps ==
    ASSUME NEW line \in Text, NEW starts, starts \subseteq 1 .. Len(line)
    PROVE  /\ starts = {} => CutAt(line, starts) = line
           /\ starts # {} => \E k \in starts : /\ \A i \in starts : k <= i
                                               /\ CutAt(line, starts) = SubSeq(line, 1, k - 1)
<1>1. CASE starts = {}
  BY <1>1 DEF CutAt
<1>2. CASE starts # {}
  <2>1. Len(line) \in Nat /\ starts \subseteq Nat
    BY DEF Text
  <2>2. \E k \in starts : \A i \in starts : k <= i
    BY <1>2, <2>1, Smallest
  <2>3. Min(starts) \in starts /\ \A i \in starts : Min(starts) <= i
    BY <2>2 DEF Min
  <2> QED
    BY <1>2, <2>3 DEF CutAt
<1> QED
  BY <1>1, <1>2

LEMMA CutType ==
    ASSUME NEW line \in Text, NEW starts, starts \subseteq 1 .. Len(line)
    PROVE  /\ CutAt(line, starts) \in Text
           /\ Len(CutAt(line, starts)) \in 0 .. Len(line)
           /\ \A i \in 1 .. Len(CutAt(line, starts)) : CutAt(line, starts)[i] = line[i]
           /\ line \in Line => CutAt(line, starts) \in Line
           /\ CutAt(line, starts) = line \/ Len(CutAt(line, starts)) + 1 \in starts
           /\ \A i \in starts : Len(CutAt(line, starts)) < i
<1> DEFINE c == CutAt(line, starts)
<1>0. Len(line) \in Nat
  BY DEF Text
<1>1. CASE starts = {}
  <2>1. c = line
    BY <1>1, CutKeeps
  <2> HIDE DEF c
  <2>2. c \in Text /\ Len(c) \in 0 .. Len(line)
    BY <1>0, <2>1
  <2> QED
    BY <1>1, <2>1, <2>2 DEF c
<1>2. CASE starts # {}
  <2>1. PICK k \in starts : (\A i \in starts : k <= i) /\ c = SubSeq(line, 1, k - 1)
    BY <1>2, CutKeeps
  <2> HIDE DEF c
  <2>2. /\ c \in Text /\ Len(c) = k - 1 /\ k \in 1 .. Len(line)
        /\ \A i \in 1 .. k - 1 : c[i] = line[i]
    BY <1>0, <2>1 DEF Text
  <2>3. line \in Line => c \in Line
    BY <1>0, <2>2 DEF Line
  <2>4. \A i \in starts : Len(c) < i
    BY <1>0, <2>1, <2>2
  <2> QED
    BY <1>0, <2>2, <2>3, <2>4 DEF c
<1> QED
  BY <1>1, <1>2

\* Two cuts of a line are alike if up to the end of the one, the places that the
\* other is offered are no others.
LEMMA CutAlike ==
    ASSUME NEW line \in Text, NEW S, S \subseteq 1 .. Len(line), NEW T, T \subseteq 1 .. Len(line),
           NEW k, k = Len(CutAt(line, S)),
           \A i \in T : i <= k => i \in S,
           k + 1 \in S => k + 1 \in T
    PROVE  CutAt(line, T) = CutAt(line, S)
<1>0. Len(line) \in Nat /\ k \in 0 .. Len(line)
  <2>1. Len(CutAt(line, S)) \in 0 .. Len(line)
    BY CutType
  <2> QED
    BY <2>1 DEF Text
<1>1. \A i \in T : k < i
  <2>1. \A i \in S : k < i
    BY CutType
  <2> QED
    BY <1>0, <2>1
<1>2. CASE S = {}
  <2>1. CutAt(line, S) = line
    BY <1>2, CutKeeps
  <2>2. T = {}
    BY <1>0, <1>1, <2>1
  <2> QED
    BY <1>2, <2>2
<1>3. CASE S # {}
  <2>1. PICK m \in S : (\A i \in S : m <= i) /\ CutAt(line, S) = SubSeq(line, 1, m - 1)
    BY <1>3, CutKeeps
  <2>2. m = k + 1
    BY <1>0, <2>1 DEF Text
  <2>3. m \in T
    BY <2>1, <2>2
  <2>4. PICK n \in T : (\A i \in T : n <= i) /\ CutAt(line, T) = SubSeq(line, 1, n - 1)
    BY <2>3, CutKeeps
  <2>5. n = m
    BY <1>0, <1>1, <2>2, <2>3, <2>4
  <2> QED
    BY <2>1, <2>4, <2>5
<1> QED
  BY <1>2, <1>3

----------------------------------------------------------------------------
(* Comments out *)

\* The scanner of removeComments finds the comments of a line.
LEMMA CommentsFound ==
    ASSUME NEW line \in Text
    PROVE  CommentStarts(line, ScanJson)
              = {i \in DOMAIN line : StartsComment(line, i) /\ ~InString(line, i)}
<1>1. ASSUME NEW i \in 1 .. Len(line)
      PROVE  Scan(line, ScanJson)[i - 1].inString <=> InString(line, i)
  <2>1. i - 1 \in 0 .. Len(line) /\ (i - 1) + 1 = i
    BY DEF Text
  <2>2. Scan(line, ScanJson)[i - 1].inString <=> InString(line, (i - 1) + 1)
    BY <2>1, ScanJsonReads
  <2> QED
    BY <2>1, <2>2
<1>2. DOMAIN line = 1 .. Len(line)
  BY DEF Text
<1> QED
  BY <1>1, <1>2 DEF CommentStarts

LEMMA CommentsOut ==
    ASSUME NEW text \in Text
    PROVE  RemoveComments(text) = Uncommented(text)
<1>1. ASSUME NEW n \in DOMAIN Lines(text)
      PROVE  CommentStarts(Lines(text)[n], ScanJson)
                = {i \in DOMAIN Lines(text)[n] :
                      StartsComment(Lines(text)[n], i) /\ ~InString(Lines(text)[n], i)}
  <2>1. Lines(text) \in Seq(Line) /\ Line \subseteq Text
    BY LinesType DEF Line
  <2>2. Lines(text)[n] \in Text
    BY <2>1
  <2> QED
    BY <2>2, CommentsFound
<1> QED
  BY <1>1 DEF RemoveComments, Uncommented

----------------------------------------------------------------------------
(* Lines that can be those of a JSON document *)

Jsonish(line) ==
    /\ ~InString(line, Len(line) + 1)
    /\ \A i \in DOMAIN line :
          line[i] \in {Single, Back, Slash, Wide, Curly} => InString(line, i)

\* On such a line both scanners see the same.
LEMMA ScannersAgree ==
    ASSUME NEW line \in Text, Jsonish(line)
    PROVE  /\ \A n \in 0 .. Len(line) : Scan(line, ScanBoth)[n] = Scan(line, ScanJson)[n]
           /\ Scan(line, ScanBoth)[Len(line)] = Outside
<1> DEFINE a == Scan(line, ScanJson)
           b == Scan(line, ScanBoth)
           P == {m \in Nat : m <= Len(line) => /\ a[m] = b[m]
                                               /\ a[m].strQuote = Quote
                                               /\ a[m].escaped => a[m].inString}
<1>0. /\ a[0] = Outside /\ b[0] = Outside /\ Len(line) \in Nat
      /\ \A m \in 0 .. Len(line) : a[m] \in States /\ b[m] \in States
      /\ \A m \in 1 .. Len(line) : /\ line[m] \in Chars
                                   /\ a[m] = ScanJson[line[m]][a[m - 1]]
                                   /\ b[m] = ScanBoth[line[m]][b[m - 1]]
  BY ScanTypes, ScanSteps
<1>1. ASSUME NEW m \in 0 .. Len(line) PROVE a[m].inString <=> InString(line, m + 1)
  BY ScanJsonReads
<1> HIDE DEF a, b
<1>2. 0 \in P
  BY <1>0 DEF Outside
<1>3. ASSUME NEW m \in Nat, m \in P PROVE m + 1 \in P
  <2> SUFFICES ASSUME m + 1 <= Len(line)
               PROVE  /\ a[m + 1] = b[m + 1]
                      /\ a[m + 1].strQuote = Quote
                      /\ a[m + 1].escaped => a[m + 1].inString
    OBVIOUS
  <2> DEFINE char == line[m + 1]
             x == a[m]
  <2>1. /\ x \in States /\ char \in Chars
        /\ b[m] = x /\ x.strQuote = Quote
        /\ x.escaped => x.inString
        /\ a[m + 1] = ScanJson[char][x]
        /\ b[m + 1] = ScanBoth[char][x]
    BY <1>0, <1>3
  <2>2. char \in {Single, Back, Slash, Wide, Curly} => x.inString
    <3>1. m + 1 \in DOMAIN line
      BY DEF Text
    <3> QED
      BY <1>1, <3>1 DEF Jsonish
  <2> HIDE DEF char, x
  <2>3. a[m + 1] = IF char = Back /\ ~x.escaped THEN [x EXCEPT !.escaped = TRUE]
                   ELSE IF char = Quote /\ ~x.escaped THEN [x EXCEPT !.inString = ~@]
                   ELSE [x EXCEPT !.escaped = FALSE]
    BY <2>1 DEF ScanJson
  <2>4. b[m + 1] = IF x.inString
                   THEN IF x.escaped THEN [x EXCEPT !.escaped = FALSE]
                        ELSE IF char = Back THEN [x EXCEPT !.escaped = TRUE]
                        ELSE IF char = x.strQuote THEN [x EXCEPT !.inString = FALSE]
                        ELSE x
                   ELSE IF char \in {Quote, Single}
                        THEN [x EXCEPT !.inString = TRUE, !.strQuote = char] ELSE x
    BY <2>1 DEF ScanBoth
  <2>5. CASE x.inString /\ x.escaped
    <3>1. b[m + 1] = [x EXCEPT !.escaped = FALSE] /\ a[m + 1] = b[m + 1]
      BY <2>3, <2>4, <2>5
    <3> QED
      BY <2>1, <2>5, <3>1 DEF States
  <2>6. CASE x.inString /\ ~x.escaped
    <3>1. x = [x EXCEPT !.escaped = FALSE] /\ [x EXCEPT !.inString = ~@] = [x EXCEPT !.inString = FALSE]
      BY <2>1, <2>6 DEF States
    <3>2. a[m + 1] = b[m + 1]
      BY <2>1, <2>3, <2>4, <2>6, <3>1
    <3>3. b[m + 1] \in {x, [x EXCEPT !.escaped = TRUE], [x EXCEPT !.inString = FALSE]}
      BY <2>4, <2>6
    <3> QED
      BY <2>1, <2>6, <3>2, <3>3 DEF States
  <2>7. CASE ~x.inString
    <3>1. x = [x EXCEPT !.escaped = FALSE]
      BY <2>1, <2>7 DEF States
    <3>2. char \notin {Single, Back} /\ ~x.escaped
      BY <2>1, <2>2, <2>7
    <3>3. CASE char = Quote
      <4>1. [x EXCEPT !.inString = ~@] = [x EXCEPT !.inString = TRUE, !.strQuote = char]
        BY <2>1, <2>7, <3>3 DEF States
      <4>2. a[m + 1] = [x EXCEPT !.inString = TRUE, !.strQuote = char] /\ b[m + 1] = a[m + 1]
        BY <2>3, <2>4, <2>7, <3>2, <3>3, <4>1
      <4> QED
        BY <2>1, <3>3, <4>2 DEF States
    <3>4. CASE char # Quote
      BY <2>1, <2>3, <2>4, <2>7, <3>1, <3>2, <3>4
    <3> QED
      BY <3>3, <3>4
  <2> QED
    BY <2>5, <2>6, <2>7
<1>4. \A m \in Nat : m \in P
  <2> HIDE DEF P
  <2> QED
    BY <1>2, <1>3, SetInduction
<1>5. \A n \in 0 .. Len(line) : b[n] = a[n]
  BY <1>0, <1>4
<1>6. b[Len(line)] = Outside
  <2> DEFINE x == a[Len(line)]
  <2>1. /\ x \in States /\ x.strQuote = Quote
        /\ x.escaped => x.inString
        /\ b[Len(line)] = x
    BY <1>0, <1>4
  <2>2. ~x.inString
    BY <1>0, <1>1 DEF Jsonish
  <2> HIDE DEF x
  <2>3. x = Outside
    BY <2>1, <2>2 DEF States, Outside
  <2> QED
    BY <2>1, <2>3
<1> QED
  BY <1>5, <1>6 DEF a, b

\* If what a tool leaves of a line is such a line by either scanner, the other
\* scanner leaves the same.
LEMMA SafeAsStrict ==
    ASSUME NEW line \in Text, NEW step, NEW other,
           <<step, other>> \in {<<ScanJson, ScanBoth>>, <<ScanBoth, ScanJson>>},
           Jsonish(CutAt(line, CommentStarts(line, step)))
    PROVE  CutAt(line, CommentStarts(line, other)) = CutAt(line, CommentStarts(line, step))
<1> DEFINE S == CommentStarts(line, step)
           T == CommentStarts(line, other)
           c == CutAt(line, S)
           k == Len(c)
<1>0. S \subseteq 1 .. Len(line) /\ T \subseteq 1 .. Len(line) /\ Len(line) \in Nat
  BY DEF CommentStarts, Text
<1>1. c \in Text /\ k \in 0 .. Len(line) /\ \A i \in 1 .. k : c[i] = line[i]
  BY <1>0, CutType
<1>2. ASSUME NEW n \in 0 .. k PROVE Scan(line, step)[n] = Scan(line, other)[n]
  <2>1. ASSUME NEW f PROVE Scan(line, f)[n] = Scan(c, f)[n]
    BY <1>0, <1>1, ReadPrefix DEF Scan
  <2>2. Scan(c, step)[n] = Scan(c, other)[n]
    BY <1>1, ScannersAgree
  <2> QED
    BY <2>1, <2>2
<1>3. ASSUME NEW i \in 1 .. Len(line), i <= k + 1 PROVE i \in S <=> i \in T
  <2>1. Scan(line, step)[i - 1] = Scan(line, other)[i - 1]
    BY <1>0, <1>1, <1>2, <1>3
  <2> QED
    BY <2>1 DEF CommentStarts
<1> HIDE DEF S, T, k, c
<1>4. (\A i \in T : i <= k => i \in S) /\ (k + 1 \in S => k + 1 \in T)
  BY <1>0, <1>1, <1>3
<1>5. CutAt(line, T) = CutAt(line, S)
  BY <1>0, <1>4, CutAlike DEF k, c
<1> QED
  BY <1>5 DEF S, T

\* If cutting a line anywhere leaves such a line, no string is cut.
LEMMA AnywhereAsStrict ==
    ASSUME NEW line \in Text,
           Jsonish(CutAt(line, {i \in 1 .. Len(line) : StartsComment(line, i)}))
    PROVE  CutAt(line, CommentStarts(line, ScanJson))
              = CutAt(line, {i \in 1 .. Len(line) : StartsComment(line, i)})
<1> DEFINE S == {i \in 1 .. Len(line) : StartsComment(line, i)}
           T == CommentStarts(line, ScanJson)
           c == CutAt(line, S)
           k == Len(c)
<1>0. S \subseteq 1 .. Len(line) /\ T \subseteq S /\ Len(line) \in Nat
  BY DEF CommentStarts, Text
<1>1. c \in Text /\ k \in 0 .. Len(line) /\ \A i \in 1 .. k : c[i] = line[i]
  BY <1>0, CutType
<1>2. ~Scan(line, ScanJson)[k].inString
  <2>1. Scan(line, ScanJson)[k] = Scan(c, ScanJson)[k]
    BY <1>0, <1>1, ReadPrefix DEF Scan
  <2>2. ~Scan(c, ScanJson)[k].inString
    <3>1. k \in 0 .. Len(c)
      BY <1>1
    <3> QED
      BY <1>1, <3>1, ScanJsonReads DEF Jsonish
  <2> QED
    BY <2>1, <2>2
<1>3. k + 1 \in S => k + 1 \in T
  <2>1. (k + 1) - 1 = k
    BY <1>1
  <2> QED
    BY <1>2, <2>1 DEF CommentStarts
<1> HIDE DEF S, T, k, c
<1>4. CutAt(line, T) = CutAt(line, S)
  BY <1>0, <1>3, CutAlike DEF k, c
<1> QED
  BY <1>4 DEF S, T

----------------------------------------------------------------------------
(* The repair *)

\* A text of which the repair changes nothing, and that leaves no string open.
Sound(text) ==
    /\ Scan(text, ScanBoth)[Len(text)] = Outside
    /\ \A i \in 1 .. Len(text) : text[i] \in {Wide, Curly} => Scan(text, ScanBoth)[i - 1].inString

\* A scanner that ends outside strings reads what follows as if it began there.
LEMMA ScanConcat ==
    ASSUME NEW s \in Text, NEW t \in Text, Scan(s, ScanBoth)[Len(s)] = Outside
    PROVE  /\ \A n \in 0 .. Len(s) : Scan(s \o t, ScanBoth)[n] = Scan(s, ScanBoth)[n]
           /\ \A n \in 0 .. Len(t) : Scan(s \o t, ScanBoth)[Len(s) + n] = Scan(t, ScanBoth)[n]
<1> DEFINE st == s \o t
           P == {n \in Nat : n <= Len(t) => Scan(st, ScanBoth)[Len(s) + n] = Scan(t, ScanBoth)[n]}
<1>1. /\ st \in Text /\ Len(st) = Len(s) + Len(t) /\ Len(s) \in Nat /\ Len(t) \in Nat
      /\ \A n \in 1 .. Len(s) : st[n] = s[n]
      /\ \A n \in 1 .. Len(t) : st[Len(s) + n] = t[n]
  BY DEF Text
<1> HIDE DEF st
<1>2. ASSUME NEW n \in 0 .. Len(s) PROVE Scan(st, ScanBoth)[n] = Scan(s, ScanBoth)[n]
  BY <1>1, ReadPrefix DEF Scan
<1>3. 0 \in P
  <2>1. Scan(t, ScanBoth)[0] = Outside
    BY ScanTypes, ScanSteps
  <2> QED
    BY <1>1, <1>2, <2>1
<1>4. ASSUME NEW n \in Nat, n \in P PROVE n + 1 \in P
  <2> SUFFICES ASSUME n + 1 <= Len(t)
               PROVE  Scan(st, ScanBoth)[Len(s) + (n + 1)] = Scan(t, ScanBoth)[n + 1]
    OBVIOUS
  <2>1. Scan(st, ScanBoth)[Len(s) + n] = Scan(t, ScanBoth)[n]
    BY <1>1, <1>4
  <2>2. /\ n + 1 \in 1 .. Len(t) /\ (n + 1) - 1 = n
        /\ Len(s) + (n + 1) \in 1 .. Len(st) /\ (Len(s) + (n + 1)) - 1 = Len(s) + n
    BY <1>1
  <2>3. /\ Scan(st, ScanBoth)[Len(s) + (n + 1)]
              = ScanBoth[st[Len(s) + (n + 1)]][Scan(st, ScanBoth)[(Len(s) + (n + 1)) - 1]]
        /\ Scan(t, ScanBoth)[n + 1] = ScanBoth[t[n + 1]][Scan(t, ScanBoth)[(n + 1) - 1]]
    BY <1>1, <2>2, ScanTypes, ScanSteps
  <2>4. st[Len(s) + (n + 1)] = t[n + 1]
    BY <1>1, <2>2
  <2> QED
    BY <2>1, <2>2, <2>3, <2>4
<1>5. \A n \in Nat : n \in P
  <2> HIDE DEF P
  <2> QED
    BY <1>3, <1>4, SetInduction
<1>6. \A n \in 0 .. Len(t) : Scan(st, ScanBoth)[Len(s) + n] = Scan(t, ScanBoth)[n]
  BY <1>1, <1>5
<1> QED
  BY <1>2, <1>6 DEF st

LEMMA SoundConcat ==
    ASSUME NEW s \in Text, NEW t \in Text, Sound(s), Sound(t)
    PROVE  s \o t \in Text /\ Sound(s \o t)
<1> DEFINE st == s \o t
<1>1. /\ st \in Text /\ Len(st) = Len(s) + Len(t) /\ Len(s) \in Nat /\ Len(t) \in Nat
      /\ \A n \in 1 .. Len(s) : st[n] = s[n]
      /\ \A n \in 1 .. Len(t) : st[Len(s) + n] = t[n]
  BY DEF Text
<1>2. /\ \A n \in 0 .. Len(s) : Scan(st, ScanBoth)[n] = Scan(s, ScanBoth)[n]
      /\ \A n \in 0 .. Len(t) : Scan(st, ScanBoth)[Len(s) + n] = Scan(t, ScanBoth)[n]
  BY ScanConcat DEF Sound
<1> HIDE DEF st
<1>3. Scan(st, ScanBoth)[Len(st)] = Outside
  BY <1>1, <1>2 DEF Sound
<1>4. ASSUME NEW i \in 1 .. Len(st), st[i] \in {Wide, Curly}
      PROVE  Scan(st, ScanBoth)[i - 1].inString
  <2>1. CASE i <= Len(s)
    BY <1>1, <1>2, <1>4, <2>1 DEF Sound
  <2>2. CASE ~(i <= Len(s))
    <3> DEFINE n == i - Len(s)
    <3>1. n \in 1 .. Len(t) /\ n - 1 \in 0 .. Len(t) /\ Len(s) + n = i /\ Len(s) + (n - 1) = i - 1
      BY <1>1, <2>2
    <3> HIDE DEF n
    <3> QED
      BY <1>1, <1>2, <1>4, <3>1 DEF Sound
  <2> QED
    BY <2>1, <2>2
<1>5. st \in Text /\ Sound(st)
  BY <1>1, <1>3, <1>4 DEF Sound
<1> QED
  BY <1>5 DEF st

LEMMA SoundBreak == <<Break>> \in Text /\ Sound(<<Break>>)
<1> DEFINE t == <<Break>>
<1>1. t \in Text /\ Len(t) = 1 /\ t[1] = Break
  BY DEF Text, Chars
<1> HIDE DEF t
<1>2. Scan(t, ScanBoth)[0] = Outside /\ Scan(t, ScanBoth)[1] = ScanBoth[Break][Scan(t, ScanBoth)[0]]
  <2>1. 1 \in 1 .. Len(t) /\ 1 - 1 = 0
    BY <1>1
  <2>2. Scan(t, ScanBoth)[1] = ScanBoth[t[1]][Scan(t, ScanBoth)[1 - 1]]
    BY <1>1, <2>1, ScanTypes, ScanSteps
  <2>3. Scan(t, ScanBoth)[0] = Outside
    BY <1>1, ScanTypes, ScanSteps
  <2> QED
    BY <1>1, <2>1, <2>2, <2>3
<1>3. ScanBoth[Break][Outside] = Outside
  <2>1. Outside \in States /\ Break \in Chars /\ Break \notin {Quote, Single} /\ ~Outside.inString
    BY DEF Outside, States, Chars, Break, Quote, Single
  <2> QED
    BY <2>1 DEF ScanBoth
<1>4. Break \notin {Wide, Curly}
  BY DEF Break, Wide, Curly
<1>5. Sound(t)
  BY <1>1, <1>2, <1>3, <1>4 DEF Sound
<1> QED
  BY <1>1, <1>5 DEF t

LEMMA SoundLine ==
    ASSUME NEW line \in Text, Jsonish(line) PROVE Sound(line)
<1>1. Scan(line, ScanBoth)[Len(line)] = Outside
  BY ScannersAgree
<1>2. ASSUME NEW i \in 1 .. Len(line), line[i] \in {Wide, Curly}
      PROVE  Scan(line, ScanBoth)[i - 1].inString
  <2>1. i \in DOMAIN line /\ i - 1 \in 0 .. Len(line) /\ (i - 1) + 1 = i
    BY DEF Text
  <2>2. InString(line, i)
    BY <1>2, <2>1 DEF Jsonish
  <2>3. Scan(line, ScanBoth)[i - 1] = Scan(line, ScanJson)[i - 1]
    BY <2>1, ScannersAgree
  <2>4. Scan(line, ScanJson)[i - 1].inString <=> InString(line, (i - 1) + 1)
    BY <2>1, ScanJsonReads
  <2> QED
    BY <2>1, <2>2, <2>3, <2>4
<1> QED
  BY <1>1, <1>2 DEF Sound

LEMMA SoundJoined ==
    ASSUME NEW ls \in Seq(Text) \ {<<>>}, \A n \in DOMAIN ls : Jsonish(ls[n])
    PROVE  Joined(ls) \in Text /\ Sound(Joined(ls))
<1> DEFINE T == {line \in Text : Jsonish(line)}
           S == {l \in Seq(T) : Joined(l) \in Text /\ Sound(Joined(l))}
<1>1. ASSUME NEW line \in T PROVE <<line>> \in S
  <2>1. Joined(<<line>>) = line
    BY JoinedAppend
  <2>2. <<line>> \in Seq(T)
    OBVIOUS
  <2> QED
    BY <2>1, <2>2, SoundLine
<1>2. ASSUME NEW l \in Seq(T) \ {<<>>}, NEW line \in T, l \in S PROVE Append(l, line) \in S
  <2>1. l \in Seq(Text) \ {<<>>} /\ line \in Text /\ Sound(line) /\ Append(l, line) \in Seq(T)
    BY SoundLine
  <2>2. Joined(Append(l, line)) = (Joined(l) \o <<Break>>) \o line
    BY <2>1, JoinedAppend
  <2>3. Joined(l) \in Text /\ Sound(Joined(l))
    BY <1>2
  <2>4. Joined(l) \o <<Break>> \in Text /\ Sound(Joined(l) \o <<Break>>)
    BY <2>3, SoundBreak, SoundConcat
  <2> HIDE DEF T
  <2>5. (Joined(l) \o <<Break>>) \o line \in Text /\ Sound((Joined(l) \o <<Break>>) \o line)
    BY <2>1, <2>4, SoundConcat
  <2> QED
    BY <2>1, <2>2, <2>5
<1>3. ls \in Seq(T) \ {<<>>}
  OBVIOUS
<1> HIDE DEF T, S
<1>4. ls \in S
  BY <1>1, <1>2, <1>3, LinesInduction
<1> QED
  BY <1>4 DEF S

LEMMA NothingToRepair ==
    ASSUME NEW text \in Text, Sound(text) PROVE SmartPreprocess(text) = text
<1>1. Len(text) \in Nat /\ text = [i \in 1 .. Len(text) |-> text[i]]
  BY DEF Text
<1>2. \A i \in 1 .. Len(text) : text[i] \in {Wide, Curly} => Scan(text, ScanBoth)[i - 1].inString
  BY DEF Sound
<1> QED
  BY <1>1, <1>2 DEF SmartPreprocess

----------------------------------------------------------------------------
(* The three ways to take comments out, line by line *)

LEMMA LinesCut ==
    ASSUME NEW text \in Text, NEW cut \in [DOMAIN Lines(text) -> Line]
    PROVE  /\ cut \in Seq(Line) \ {<<>>} /\ DOMAIN cut = DOMAIN Lines(text)
           /\ Joined(cut) \in Text /\ Lines(Joined(cut)) = cut
           /\ MayBeJson(Joined(cut)) <=> \A n \in DOMAIN Lines(text) : Jsonish(cut[n])
<1>1. Lines(text) \in Seq(Line) /\ Len(Lines(text)) \in Nat \ {0}
  BY LinesType
<1>2. cut \in Seq(Line) \ {<<>>} /\ DOMAIN cut = DOMAIN Lines(text)
  <2>1. DOMAIN Lines(text) = 1 .. Len(Lines(text))
    BY <1>1
  <2> QED
    BY <1>1, <2>1
<1>3. Joined(cut) \in Text /\ Lines(Joined(cut)) = cut
  BY <1>2, LinesJoined
<1>4. MayBeJson(Joined(cut)) <=> \A n \in DOMAIN Lines(text) : Jsonish(cut[n])
  BY <1>2, <1>3 DEF MayBeJson, Jsonish
<1> QED
  BY <1>2, <1>3, <1>4

LEMMA OneReading ==
    ASSUME NEW text \in Text
    PROVE  /\ \A out \in {RemoveComments(text), SafeRemoveComments(text)} :
                 MayBeJson(out) => /\ RemoveComments(text) = SafeRemoveComments(text)
                                   /\ SmartPreprocess(out) = out
           /\ MayBeJson(CutAnywhere(text)) => CutAnywhere(text) = RemoveComments(text)
<1> DEFINE D == DOMAIN Lines(text)
           L(n) == Lines(text)[n]
           A(n) == CutAt(L(n), CommentStarts(L(n), ScanJson))
           B(n) == CutAt(L(n), CommentStarts(L(n), ScanBoth))
           C(n) == CutAt(L(n), {i \in 1 .. Len(L(n)) : StartsComment(L(n), i)})
           a == [n \in D |-> A(n)]
           b == [n \in D |-> B(n)]
           c == [n \in D |-> C(n)]
<1>1. ASSUME NEW n \in D
      PROVE  L(n) \in Text /\ A(n) \in Line /\ B(n) \in Line /\ C(n) \in Line
  <2>1. Lines(text) \in Seq(Line) /\ Line \subseteq Text
    BY LinesType DEF Line
  <2>2. L(n) \in Line /\ L(n) \in Text
    BY <2>1
  <2> HIDE DEF L
  <2>3. A(n) \in Line
    BY <2>2, CutType DEF CommentStarts
  <2>4. B(n) \in Line
    BY <2>2, CutType DEF CommentStarts
  <2>5. C(n) \in Line
    BY <2>2, CutType
  <2> QED
    BY <2>2, <2>3, <2>4, <2>5
<1>2. /\ RemoveComments(text) = Joined(a) /\ SafeRemoveComments(text) = Joined(b)
      /\ CutAnywhere(text) = Joined(c)
  BY DEF RemoveComments, SafeRemoveComments, CutAnywhere
<1>3. ASSUME NEW n \in D
      PROVE  /\ Jsonish(A(n)) => B(n) = A(n)
             /\ Jsonish(B(n)) => A(n) = B(n)
             /\ Jsonish(C(n)) => C(n) = A(n)
  <2>1. L(n) \in Text
    BY <1>1
  <2> HIDE DEF L
  <2>2. Jsonish(A(n)) => B(n) = A(n)
    BY <2>1, SafeAsStrict
  <2>3. Jsonish(B(n)) => A(n) = B(n)
    BY <2>1, SafeAsStrict
  <2>4. Jsonish(C(n)) => C(n) = A(n)
    BY <2>1, AnywhereAsStrict
  <2> QED
    BY <2>2, <2>3, <2>4
<1>4. a \in [D -> Line] /\ b \in [D -> Line] /\ c \in [D -> Line]
  BY <1>1
<1>5. ASSUME NEW ls \in [D -> Line], MayBeJson(Joined(ls))
      PROVE  (\A n \in D : Jsonish(ls[n])) /\ SmartPreprocess(Joined(ls)) = Joined(ls)
  <2>1. /\ ls \in Seq(Line) \ {<<>>} /\ DOMAIN ls = D
        /\ \A n \in D : Jsonish(ls[n])
    BY <1>5, LinesCut
  <2>2. ls \in Seq(Text) \ {<<>>}
    BY <2>1 DEF Line
  <2>3. Joined(ls) \in Text /\ Sound(Joined(ls))
    BY <2>1, <2>2, SoundJoined
  <2> QED
    BY <2>1, <2>3, NothingToRepair
<1>6. /\ (\A n \in D : Jsonish(a[n])) => a = b
      /\ (\A n \in D : Jsonish(b[n])) => a = b
      /\ (\A n \in D : Jsonish(c[n])) => c = a
  BY <1>3
<1> HIDE DEF a, b, c, D
<1> QED
  BY <1>2, <1>4, <1>5, <1>6

----------------------------------------------------------------------------
(* Layout: how deep a text is *)

Brackets(text, char, i) ==
    {j \in 1 .. i : text[j] = char /\ ~Scan(text, ScanBoth)[j - 1].inString}

LEMMA BracketsCount ==
    ASSUME NEW text, NEW char, NEW i \in Nat
    PROVE  /\ Cardinality(Brackets(text, char, i)) \in Nat
           /\ Cardinality(Brackets(text, char, 0)) = 0
           /\ Cardinality(Brackets(text, char, i + 1)) =
                 IF text[i + 1] = char /\ ~Scan(text, ScanBoth)[i].inString
                 THEN Cardinality(Brackets(text, char, i)) + 1
                 ELSE Cardinality(Brackets(text, char, i))
<1> DEFINE B(n) == Brackets(text, char, n)
<1>1. ASSUME NEW n \in Nat PROVE IsFiniteSet(B(n)) /\ Cardinality(B(n)) \in Nat
  <2>1. IsFiniteSet(1 .. n)
    BY FS_Interval
  <2>2. B(n) \subseteq 1 .. n
    BY DEF Brackets
  <2> QED
    BY <2>1, <2>2, FS_Subset, FS_CardinalityType
<1>2. Cardinality(B(0)) = 0
  <2>1. B(0) = {}
    BY DEF Brackets
  <2> QED
    BY <2>1, FS_EmptySet
<1>3. (i + 1) - 1 = i
  OBVIOUS
<1>4. CASE text[i + 1] = char /\ ~Scan(text, ScanBoth)[i].inString
  <2>1. B(i + 1) = B(i) \cup {i + 1} /\ i + 1 \notin B(i)
    BY <1>3, <1>4 DEF Brackets
  <2>2. Cardinality(B(i + 1)) = Cardinality(B(i)) + 1
    BY <1>1, <2>1, FS_AddElement
  <2> QED
    BY <1>1, <1>2, <1>4, <2>2
<1>5. CASE ~(text[i + 1] = char /\ ~Scan(text, ScanBoth)[i].inString)
  <2>1. B(i + 1) = B(i)
    BY <1>3, <1>5 DEF Brackets
  <2> QED
    BY <1>1, <1>2, <1>5, <2>1
<1> QED
  BY <1>4, <1>5

\* The depth of a text goes up at a bracket that opens and down at one that
\* closes, outside strings.
LEMMA DepthNext ==
    ASSUME NEW text, NEW i \in Nat
    PROVE  /\ Depth(text, 0) = 0
           /\ Depth(text, i) \in Int
           /\ Depth(text, i + 1) =
                 IF ~Scan(text, ScanBoth)[i].inString /\ text[i + 1] = Open THEN Depth(text, i) + 1
                 ELSE IF ~Scan(text, ScanBoth)[i].inString /\ text[i + 1] = Close
                      THEN Depth(text, i) - 1 ELSE Depth(text, i)
<1>1. ASSUME NEW n \in Nat
      PROVE  Depth(text, n) = Cardinality(Brackets(text, Open, n))
                              - Cardinality(Brackets(text, Close, n))
  BY DEF Depth, Brackets
<1>2. Open # Close
  BY DEF Open, Close
<1> QED
  BY <1>1, <1>2, BracketsCount

\* What follows does not change the depth of a text.
LEMMA DepthPrefix ==
    ASSUME NEW text \in Text, NEW char \in Chars, NEW i \in 0 .. Len(text)
    PROVE  Depth(Append(text, char), i) = Depth(text, i)
<1> DEFINE t == Append(text, char)
<1>1. /\ t \in Text /\ Len(text) \in Nat /\ Len(t) = Len(text) + 1
      /\ \A j \in 1 .. Len(text) : t[j] = text[j]
  BY DEF Text
<1> HIDE DEF t
<1>2. ASSUME NEW j \in 1 .. i
      PROVE  t[j] = text[j] /\ Scan(t, ScanBoth)[j - 1] = Scan(text, ScanBoth)[j - 1]
  BY <1>1, ReadPrefix DEF Scan
<1>3. ASSUME NEW c PROVE Brackets(t, c, i) = Brackets(text, c, i)
  BY <1>2 DEF Brackets
<1>4. Depth(t, i) = Depth(text, i)
  BY <1>3 DEF Depth, Brackets
<1> QED
  BY <1>4 DEF t

----------------------------------------------------------------------------
(* Layout: one character *)

LEMMA NewLineType ==
    ASSUME NEW level \in Nat PROVE NewLine(level) \in Seq(White)
<1>1. [i \in 1 .. 2 * level |-> Space] \in Seq(White) /\ <<Break>> \in Seq(White)
  BY DEF White
<1> QED
  BY <1>1 DEF NewLine

LEMMA WhiteText == White \subseteq Chars /\ Seq(White) \subseteq Text
  BY DEF White, Chars, Text

\* The level after a character.
Level(char, out) ==
    IF out.scan.inString THEN out.level
    ELSE IF char = Open THEN out.level + 1
    ELSE IF char = Close THEN out.level - 1 ELSE out.level

Written(char, out) == IF out.scan.inString THEN <<char>> ELSE LaidOut(char, out.level)

LEMMA FormatStep ==
    ASSUME NEW char \in Chars, NEW out \in Formats
    PROVE  /\ Level(char, out) \in Int
           /\ Format[char][out] =
                 IF out.throws THEN out
                 ELSE IF Level(char, out) < 0 THEN [out EXCEPT !.throws = TRUE]
                 ELSE [scan |-> ScanBoth[char][out.scan], level |-> Level(char, out),
                       throws |-> FALSE, text |-> out.text \o Written(char, out)]
<1>1. out.level \in Nat /\ out.scan \in States /\ out.scan.inString \in BOOLEAN
  BY DEF Formats, States
<1>2. Level(char, out) \in Int
  BY <1>1 DEF Level
<1>3. Level(char, out) =
         CASE out.scan.inString -> out.level
           [] ~out.scan.inString /\ char = Open -> out.level + 1
           [] ~out.scan.inString /\ char = Close -> out.level - 1
           [] OTHER -> out.level
  BY <1>1 DEF Level, Open, Close
<1> QED
  BY <1>2, <1>3 DEF Format, Written

\* What is written for a character outside strings: the character, between
\* white space, unless it is white space itself.
LEMMA LaidOutShape ==
    ASSUME NEW char \in Chars, NEW level \in Nat, char = Close => level > 0
    PROVE  /\ char \in White => LaidOut(char, level) = <<>>
           /\ char \in {Open, Comma, Colon} =>
                 \E w \in Seq(White) : LaidOut(char, level) = <<char>> \o w
           /\ char = Close =>
                 \E w \in Seq(White) : LaidOut(char, level) = w \o <<char>>
           /\ char \notin White \cup {Open, Close, Comma, Colon} => LaidOut(char, level) = <<char>>
<1>0. /\ Open \notin {Close, Comma, Colon} \cup White /\ Close \notin {Comma, Colon} \cup White
      /\ Comma \notin {Colon} \cup White /\ Colon \notin White
  BY DEF White, Break, Space, Open, Close, Comma, Colon
<1>1. char = Open => LaidOut(char, level) = <<char>> \o NewLine(level + 1)
  BY <1>0 DEF LaidOut
<1>2. char = Close => LaidOut(char, level) = NewLine(level - 1) \o <<char>>
  BY <1>0 DEF LaidOut
<1>3. char = Comma => LaidOut(char, level) = <<char>> \o NewLine(level)
  BY <1>0 DEF LaidOut
<1>4. char = Colon => LaidOut(char, level) = <<char>> \o <<Space>> /\ <<Space>> \in Seq(White)
  <2>1. char = Colon => LaidOut(char, level) = <<char, Space>>
    BY <1>0 DEF LaidOut
  <2> QED
    BY <2>1 DEF White
<1>5. char \in White => LaidOut(char, level) = <<>>
  BY <1>0 DEF LaidOut
<1>6. char \notin White \cup {Open, Close, Comma, Colon} => LaidOut(char, level) = <<char>>
  BY DEF LaidOut
<1>7. /\ NewLine(level + 1) \in Seq(White) /\ NewLine(level) \in Seq(White)
      /\ char = Close => NewLine(level - 1) \in Seq(White)
  <2>1. level + 1 \in Nat /\ (char = Close => level - 1 \in Nat)
    OBVIOUS
  <2> QED
    BY <2>1, NewLineType
<1>8. char \in {Open, Comma, Colon} => \E w \in Seq(White) : LaidOut(char, level) = <<char>> \o w
  BY <1>1, <1>3, <1>4, <1>7
<1> QED
  BY <1>2, <1>5, <1>6, <1>7, <1>8

LEMMA WrittenType ==
    ASSUME NEW char \in Chars, NEW out \in Formats, Level(char, out) >= 0
    PROVE  Written(char, out) \in Text
<1>1. out.level \in Nat /\ out.scan \in States /\ out.scan.inString \in BOOLEAN
  BY DEF Formats, States
<1>2. <<char>> \in Text /\ <<>> \in Text
  BY DEF Text
<1>3. CASE out.scan.inString
  BY <1>2, <1>3 DEF Written
<1>4. CASE ~out.scan.inString
  <2> DEFINE w == LaidOut(char, out.level)
  <2>1. char = Close => out.level > 0
    <3>1. Close # Open
      BY DEF Open, Close
    <3>2. char = Close => Level(char, out) = out.level - 1
      BY <1>4, <3>1 DEF Level
    <3> QED
      BY <1>1, <3>2
  <2>2. \/ w = <<>>
        \/ \E v \in Seq(White) : w = <<char>> \o v
        \/ \E v \in Seq(White) : w = v \o <<char>>
        \/ w = <<char>>
    BY <1>1, <2>1, LaidOutShape
  <2> HIDE DEF w
  <2>3. ASSUME NEW v \in Seq(White) PROVE <<char>> \o v \in Text /\ v \o <<char>> \in Text
    <3>1. v \in Text
      BY WhiteText
    <3> QED
      BY <3>1 DEF Text
  <2>4. w \in Text
    BY <1>2, <2>2, <2>3
  <2> QED
    BY <1>4, <2>4 DEF Written, w
<1> QED
  BY <1>1, <1>3, <1>4

StripStates == [scan : States, text : Seq(Chars)]

LEMMA LayoutTypes ==
    /\ Format \in [Chars -> [Formats -> Formats]]
    /\ Strip \in [Chars -> [StripStates -> StripStates]]
<1>1. ASSUME NEW char \in Chars, NEW out \in Formats PROVE Format[char][out] \in Formats
  <2>1. /\ out.level \in Nat /\ out.scan \in States /\ out.text \in Text /\ out.throws \in BOOLEAN
        /\ Level(char, out) \in Int
    BY FormatStep DEF Formats, Text
  <2>2. CASE out.throws
    BY <2>2, FormatStep
  <2>3. CASE ~out.throws /\ Level(char, out) < 0
    BY <2>3, FormatStep DEF Formats
  <2>4. CASE ~out.throws /\ ~(Level(char, out) < 0)
    <3>1. Written(char, out) \in Text /\ Level(char, out) \in Nat
      BY <2>1, <2>4, WrittenType
    <3>2. out.text \o Written(char, out) \in Seq(Chars)
      BY <2>1, <3>1 DEF Text
    <3>3. ScanBoth[char][out.scan] \in States
      BY <2>1, ScanTypes
    <3>4. Format[char][out] = [scan |-> ScanBoth[char][out.scan], level |-> Level(char, out),
                               throws |-> FALSE, text |-> out.text \o Written(char, out)]
      BY <2>4, FormatStep
    <3> QED
      BY <3>1, <3>2, <3>3, <3>4 DEF Formats
  <2> QED
    BY <2>1, <2>2, <2>3, <2>4
<1>2. ASSUME NEW char \in Chars, NEW out \in StripStates PROVE Strip[char][out] \in StripStates
  <2>1. ScanBoth[char][out.scan] \in States
    BY ScanTypes DEF StripStates
  <2> QED
    BY <2>1 DEF Strip, StripStates
<1>3. Format = [char \in Chars |-> [out \in Formats |-> Format[char][out]]]
  BY DEF Format
<1>4. Strip = [char \in Chars |-> [out \in StripStates |-> Strip[char][out]]]
  BY DEF Strip, StripStates
<1> QED
  BY <1>1, <1>2, <1>3, <1>4

----------------------------------------------------------------------------
(* Layout: whole texts *)

Blank == [scan |-> Outside, text |-> <<>>, level |-> 0, throws |-> FALSE]
Bottom == [scan |-> Outside, text |-> <<>>]

LEMMA StartTypes == Blank \in Formats /\ Bottom \in StripStates
  BY ScanTypes DEF Blank, Bottom, Formats, StripStates

LEMMA ReadOne ==
    ASSUME NEW char \in Chars, NEW step, NEW start
    PROVE  <<char>> \in Text /\ Read(<<char>>, step, start) = step[char][start]
<1>1. <<char>> \in Text
  BY DEF Text
<1>2. PICK empty \in Text : empty = <<>>
  <2>1. <<>> \in Text
    BY DEF Text
  <2> QED
    BY <2>1
<1>3. Append(empty, char) = <<char>>
  BY <1>2
<1>4. Read(Append(empty, char), step, start) = step[char][Read(empty, step, start)]
  BY ReadAppend
<1>5. Read(empty, step, start) = start
  BY <1>2, ReadEmpty
<1> QED
  BY <1>1, <1>3, <1>4, <1>5

\* A character outside strings that is no quote leaves the scanner where it is.
LEMMA PlainChar ==
    ASSUME NEW char \in White \cup {Open, Close, Comma, Colon},
           NEW state \in States, ~state.inString
    PROVE  char \in Chars /\ ScanBoth[char][state] = state
<1>1. char \in Chars /\ char \notin {Quote, Single}
  BY DEF White, Chars, Open, Close, Comma, Colon, Break, Space, Quote, Single
<1> QED
  BY <1>1 DEF ScanBoth

\* White space outside strings is not laid out, and not kept by Strip.
LEMMA WhiteChar ==
    ASSUME NEW char \in White
    PROVE  /\ char \in Chars
           /\ \A out \in Formats : ~out.scan.inString => Format[char][out] = out
           /\ \A out \in StripStates : ~out.scan.inString => Strip[char][out] = out
<1>1. char \in Chars /\ char \notin {Open, Close}
  BY DEF White, Chars, Open, Close, Break, Space
<1>2. ASSUME NEW out \in Formats, ~out.scan.inString PROVE Format[char][out] = out
  <2>1. /\ out.scan \in States /\ out.level \in Nat /\ out.text \in Seq(Chars) /\ out.throws \in BOOLEAN
        /\ out = [scan |-> out.scan, text |-> out.text, level |-> out.level, throws |-> out.throws]
    BY DEF Formats
  <2>2. Level(char, out) = out.level
    BY <1>1, <1>2 DEF Level
  <2>3. Written(char, out) = <<>>
    <3>1. char # Close
      BY <1>1
    <3> QED
      BY <1>1, <1>2, <2>1, <3>1, LaidOutShape DEF Written
  <2>4. ScanBoth[char][out.scan] = out.scan
    BY <1>2, <2>1, PlainChar
  <2>5. out.text \o Written(char, out) = out.text
    BY <2>1, <2>3
  <2>6. CASE out.throws
    BY <1>1, <2>6, FormatStep
  <2>7. CASE ~out.throws
    <3>1. ~(Level(char, out) < 0)
      BY <2>1, <2>2
    <3>2. Format[char][out] = [scan |-> ScanBoth[char][out.scan], level |-> Level(char, out),
                               throws |-> FALSE, text |-> out.text \o Written(char, out)]
      BY <1>1, <2>7, <3>1, FormatStep
    <3> QED
      BY <2>1, <2>2, <2>4, <2>5, <2>7, <3>2
  <2> QED
    BY <2>6, <2>7
<1>3. ASSUME NEW out \in StripStates, ~out.scan.inString PROVE Strip[char][out] = out
  <2>1. out.scan \in States /\ out = [scan |-> out.scan, text |-> out.text]
    BY DEF StripStates
  <2>2. ScanBoth[char][out.scan] = out.scan
    BY <1>3, <2>1, PlainChar
  <2> QED
    BY <1>1, <1>3, <2>1, <2>2 DEF Strip, StripStates
<1> QED
  BY <1>1, <1>2, <1>3

LEMMA WhiteRead ==
    ASSUME NEW w \in Seq(White)
    PROVE  /\ w \in Text
           /\ \A out \in Formats : ~out.scan.inString => Read(w, Format, out) = out
           /\ \A out \in StripStates : ~out.scan.inString => Read(w, Strip, out) = out
<1> DEFINE Stays(t) == /\ \A out \in Formats : ~out.scan.inString => Read(t, Format, out) = out
                       /\ \A out \in StripStates : ~out.scan.inString => Read(t, Strip, out) = out
           S == {t \in Text : t \in Seq(White) => Stays(t)}
<1>1. <<>> \in S
  BY ReadEmpty DEF Text
<1>2. ASSUME NEW t \in Text, NEW char \in Chars, t \in S PROVE Append(t, char) \in S
  <2> SUFFICES ASSUME Append(t, char) \in Seq(White) PROVE Stays(Append(t, char))
    BY DEF Text
  <2>1. t \in Seq(White) /\ char \in White
    <3> DEFINE a == Append(t, char)
    <3>1. /\ Len(a) = Len(t) + 1 /\ Len(t) \in Nat /\ a[Len(t) + 1] = char
          /\ \A i \in 1 .. Len(t) : a[i] = t[i]
          /\ t = [i \in 1 .. Len(t) |-> t[i]]
      BY DEF Text
    <3>2. a \in Seq(White)
      OBVIOUS
    <3> HIDE DEF a
    <3>3. \A i \in 1 .. Len(t) + 1 : a[i] \in White
      BY <3>1, <3>2
    <3>4. char \in White
      BY <3>1, <3>3
    <3>5. \A i \in 1 .. Len(t) : t[i] \in White
      BY <3>1, <3>3
    <3>6. t \in Seq(White)
      BY <3>1, <3>5
    <3> QED
      BY <3>4, <3>6
  <2>2. Stays(t)
    BY <1>2, <2>1
  <2>3. ASSUME NEW out \in Formats, ~out.scan.inString
        PROVE  Read(Append(t, char), Format, out) = out
    BY <2>1, <2>2, <2>3, ReadAppend, WhiteChar
  <2>4. ASSUME NEW out \in StripStates, ~out.scan.inString
        PROVE  Read(Append(t, char), Strip, out) = out
    BY <2>1, <2>2, <2>4, ReadAppend, WhiteChar
  <2> QED
    BY <2>3, <2>4
<1>3. w \in Text
  BY WhiteText
<1>4. w \in S
  <2> HIDE DEF S
  <2> QED
    BY <1>1, <1>2, <1>3, TextInduction
<1> QED
  BY <1>3, <1>4

\* What is written for a character is read back as the character.
LEMMA ReadBack ==
    ASSUME NEW char \in Chars, NEW out \in Formats, ~out.throws, ~Format[char][out].throws,
           NEW x \in StripStates, x.scan = out.scan
    PROVE  /\ Written(char, out) \in Text
           /\ Format[char][out].text = out.text \o Written(char, out)
           /\ Read(Written(char, out), Format, out) = Format[char][out]
           /\ Read(Written(char, out), Strip, x) = Strip[char][x]
<1> DEFINE w == Written(char, out)
           o == Format[char][out]
           y == Strip[char][x]
<1>1. /\ out.level \in Nat /\ out.scan \in States /\ out.scan.inString \in BOOLEAN
      /\ Level(char, out) \in Int /\ Level(char, out) >= 0
      /\ o = [scan |-> ScanBoth[char][out.scan], level |-> Level(char, out),
              throws |-> FALSE, text |-> out.text \o w]
  <2>1. out.level \in Nat /\ out.scan \in States /\ out.scan.inString \in BOOLEAN
    BY DEF Formats, States
  <2>2. Level(char, out) \in Int
    BY FormatStep
  <2>3. ~(Level(char, out) < 0)
    <3> SUFFICES ASSUME Level(char, out) < 0 PROVE FALSE
      OBVIOUS
    <3>1. o = [out EXCEPT !.throws = TRUE]
      BY FormatStep
    <3>2. o.throws
      BY <3>1 DEF Formats
    <3> QED
      BY <3>2
  <2>4. o = [scan |-> ScanBoth[char][out.scan], level |-> Level(char, out),
             throws |-> FALSE, text |-> out.text \o w]
    BY <2>3, FormatStep
  <2>5. Level(char, out) >= 0
    BY <2>2, <2>3
  <2> HIDE DEF o, w
  <2> QED
    BY <2>1, <2>2, <2>4, <2>5
<1>2. w \in Text /\ o.text = out.text \o w /\ o \in Formats /\ y \in StripStates
  BY <1>1, WrittenType, LayoutTypes
<1>3. y.scan = ScanBoth[char][out.scan] /\ o.scan = ScanBoth[char][out.scan]
  BY <1>1 DEF Strip, StripStates
<1>4. ASSUME w = <<char>> PROVE Read(w, Format, out) = o /\ Read(w, Strip, x) = y
  BY <1>4, ReadOne
<1>5. CASE out.scan.inString
  BY <1>2, <1>4, <1>5 DEF Written
<1>6. CASE ~out.scan.inString
  <2>1. w = LaidOut(char, out.level)
    BY <1>6 DEF Written
  <2>2. char = Close => out.level > 0
    <3>1. Close # Open
      BY DEF Open, Close
    <3>2. char = Close => Level(char, out) = out.level - 1
      BY <1>6, <3>1 DEF Level
    <3> QED
      BY <1>1, <3>2
  <2>3. ASSUME NEW step, NEW start
        PROVE  Read(<<char>>, step, start) = step[char][start] /\ <<char>> \in Text
    BY ReadOne
  <2>4. CASE char \in White
    <3>1. w = <<>>
      BY <1>1, <2>1, <2>2, <2>4, LaidOutShape
    <3>2. o = out /\ y = x
      BY <1>6, <2>4, WhiteChar
    <3> HIDE DEF w, o, y
    <3>3. Read(w, Format, out) = o /\ Read(w, Strip, x) = y
      BY <3>1, <3>2, ReadEmpty
    <3> QED
      BY <1>2, <3>3 DEF w, o, y
  <2>5. CASE char \in {Open, Comma, Colon}
    <3>1. PICK v \in Seq(White) : w = <<char>> \o v
      BY <1>1, <2>1, <2>2, <2>5, LaidOutShape
    <3>2. ScanBoth[char][out.scan] = out.scan
      BY <1>1, <1>6, <2>5, PlainChar
    <3>3. v \in Text
      BY WhiteRead
    <3>4. ASSUME NEW step, NEW start
          PROVE  Read(<<char>> \o v, step, start) = Read(v, step, step[char][start])
      <4>1. Read(<<char>> \o v, step, start) = Read(v, step, Read(<<char>>, step, start))
        BY <2>3, <3>3, ReadConcat
      <4> QED
        BY <2>3, <4>1
    <3>5. ~o.scan.inString /\ ~y.scan.inString
      BY <1>3, <1>6, <3>2
    <3> HIDE DEF w, o, y
    <3>6. Read(v, Format, o) = o /\ Read(v, Strip, y) = y
      BY <1>2, <3>5, WhiteRead
    <3>7. Read(w, Format, out) = o /\ Read(w, Strip, x) = y
      BY <3>1, <3>4, <3>6 DEF o, y
    <3> QED
      BY <1>2, <3>7 DEF w, o, y
  <2>6. CASE char = Close
    <3>1. PICK v \in Seq(White) : w = v \o <<char>>
      BY <1>1, <2>1, <2>2, <2>6, LaidOutShape
    <3>2. v \in Text /\ Read(v, Format, out) = out /\ Read(v, Strip, x) = x
      BY <1>6, WhiteRead
    <3>3. ASSUME NEW step, NEW start
          PROVE  Read(v \o <<char>>, step, start) = step[char][Read(v, step, start)]
      <4>1. Read(v \o <<char>>, step, start) = Read(<<char>>, step, Read(v, step, start))
        BY <2>3, <3>2, ReadConcat
      <4> QED
        BY <2>3, <4>1
    <3> HIDE DEF w
    <3>4. Read(w, Format, out) = o /\ Read(w, Strip, x) = y
      BY <3>1, <3>2, <3>3
    <3> QED
      BY <1>2, <3>4 DEF w
  <2>7. CASE char \notin White \cup {Open, Close, Comma, Colon}
    <3>1. w = <<char>>
      BY <1>1, <2>1, <2>2, <2>7, LaidOutShape
    <3> QED
      BY <1>2, <1>4, <3>1
  <2> QED
    BY <2>4, <2>5, <2>6, <2>7
<1> QED
  BY <1>1, <1>5, <1>6

\* What has been laid out is a text that means the same and is laid out already.
LaidOutWell(text, out) ==
    /\ out.scan = Scan(text, ScanBoth)[Len(text)]
    /\ out.level = Depth(text, Len(text))
    /\ Read(out.text, Format, Blank) = out
    /\ Read(out.text, Strip, Bottom) = Read(text, Strip, Bottom)
    /\ Read(text, Strip, Bottom).scan = out.scan

TooDeep(text) == \E i \in 1 .. Len(text) : Depth(text, i) < 0

LEMMA FormatSound ==
    ASSUME NEW text \in Text
    PROVE  LET out == Read(text, Format, Blank)
           IN  /\ out \in Formats
               /\ out.throws <=> TooDeep(text)
               /\ ~out.throws => LaidOutWell(text, out)
<1> DEFINE Out(t) == Read(t, Format, Blank)
           S == {t \in Text : /\ Out(t).throws <=> TooDeep(t)
                              /\ ~Out(t).throws => LaidOutWell(t, Out(t))}
<1>1. ASSUME NEW t \in Text PROVE Out(t) \in Formats /\ Read(t, Strip, Bottom) \in StripStates
  BY StartTypes, LayoutTypes, ReadType
<1>2. ASSUME NEW t, t = <<>> PROVE t \in S
  <2>1. t \in Text /\ Len(t) = 0
    BY <1>2 DEF Text
  <2>2. Out(t) = Blank /\ Read(t, Strip, Bottom) = Bottom
    BY <1>2, ReadEmpty
  <2>3. Scan(t, ScanBoth)[0] = Outside
    BY <2>1, ScanTypes, ScanSteps
  <2>4. Depth(t, 0) = 0
    BY DepthNext
  <2>5. Blank.throws = FALSE /\ Blank.text = t /\ Blank.scan = Outside /\ Blank.level = 0
        /\ Bottom.scan = Outside
    BY <1>2 DEF Blank, Bottom
  <2>6. ~TooDeep(t)
    BY <2>1 DEF TooDeep
  <2>7. LaidOutWell(t, Blank)
    BY <2>1, <2>2, <2>3, <2>4, <2>5 DEF LaidOutWell
  <2> QED
    BY <2>1, <2>2, <2>5, <2>6, <2>7
<1>3. ASSUME NEW t \in Text, NEW char \in Chars, t \in S PROVE Append(t, char) \in S
  <2> DEFINE u == Append(t, char)
             n == Len(t)
             o == Out(t)
             p == Out(u)
             x == Read(t, Strip, Bottom)
             state == Scan(u, ScanBoth)[n]
  <2>1. /\ u \in Text /\ Len(u) = n + 1 /\ n \in Nat /\ u[n + 1] = char
        /\ \A i \in 1 .. n : u[i] = t[i]
    BY DEF Text
  <2>2. p = Format[char][o] /\ Read(u, Strip, Bottom) = Strip[char][x]
    BY ReadAppend
  <2>3. /\ o \in Formats /\ p \in Formats /\ x \in StripStates
        /\ o.throws <=> TooDeep(t)
        /\ ~o.throws => LaidOutWell(t, o)
    BY <1>1, <1>3, <2>1
  <2>4. \A i \in 1 .. n : Depth(u, i) = Depth(t, i)
    BY DepthPrefix
  <2>5. /\ state = Scan(t, ScanBoth)[n]
        /\ Scan(u, ScanBoth)[n + 1] = ScanBoth[char][state]
    <3> HIDE DEF u
    <3>1. state = Scan(t, ScanBoth)[n]
      BY <2>1, ReadPrefix DEF Scan
    <3>2. n + 1 \in 1 .. Len(u) /\ (n + 1) - 1 = n
      BY <2>1
    <3>3. Scan(u, ScanBoth)[n + 1] = ScanBoth[u[n + 1]][Scan(u, ScanBoth)[(n + 1) - 1]]
      BY <2>1, <3>2, ScanTypes, ScanSteps
    <3> QED
      BY <2>1, <3>1, <3>2, <3>3
  <2>6. Depth(u, n) = Depth(t, n)
    BY <2>1, DepthPrefix
  <2>7. /\ Depth(u, n) \in Int
        /\ Depth(u, n + 1) = IF ~state.inString /\ char = Open THEN Depth(u, n) + 1
                             ELSE IF ~state.inString /\ char = Close
                                  THEN Depth(u, n) - 1 ELSE Depth(u, n)
    BY <2>1, DepthNext
  <2> HIDE DEF u, n, o, p, x, state
  <2>8. ASSUME ~o.throws PROVE Level(char, o) = Depth(u, n + 1) /\ o.scan = state
    <3>1. o.scan = state /\ o.level = Depth(u, n)
      BY <2>3, <2>5, <2>6, <2>8 DEF LaidOutWell, n
    <3> QED
      BY <2>7, <3>1 DEF Level
  <2>9. TooDeep(u) <=> TooDeep(t) \/ Depth(u, n + 1) < 0
    <3>1. TooDeep(u) <=> (\E i \in 1 .. n : Depth(u, i) < 0) \/ Depth(u, n + 1) < 0
      BY <2>1 DEF TooDeep
    <3>2. (\E i \in 1 .. n : Depth(u, i) < 0) <=> TooDeep(t)
      BY <2>4 DEF TooDeep, n
    <3> QED
      BY <3>1, <3>2
  <2>10. CASE o.throws
    <3>1. p = o
      BY <2>2, <2>3, <2>10, FormatStep
    <3> QED
      BY <2>1, <2>3, <2>9, <2>10, <3>1 DEF p, o, u
  <2>11. CASE ~o.throws /\ Depth(u, n + 1) < 0
    <3>1. p = [o EXCEPT !.throws = TRUE]
      BY <2>2, <2>3, <2>8, <2>11, FormatStep
    <3>2. p.throws = TRUE
      BY <2>3, <3>1 DEF Formats
    <3> QED
      BY <2>1, <2>9, <2>11, <3>2 DEF p, u
  <2>12. CASE ~o.throws /\ ~(Depth(u, n + 1) < 0)
    <3>1. p = [scan |-> ScanBoth[char][o.scan], level |-> Level(char, o),
               throws |-> FALSE, text |-> o.text \o Written(char, o)]
      BY <2>2, <2>3, <2>8, <2>12, FormatStep
    <3>2. p.scan = ScanBoth[char][o.scan] /\ p.level = Level(char, o) /\ ~p.throws
      BY <3>1
    <3>3. LaidOutWell(t, o) /\ x.scan = o.scan
      BY <2>3, <2>12 DEF LaidOutWell, x
    <3> DEFINE w == Written(char, o)
    <3>4. /\ w \in Text /\ p.text = o.text \o w
          /\ Read(w, Format, o) = p /\ Read(w, Strip, x) = Strip[char][x]
      BY <2>2, <2>3, <2>12, <3>2, <3>3, ReadBack
    <3> HIDE DEF w
    <3>5. o.text \in Text
      BY <2>3 DEF Formats, Text
    <3>6. Read(p.text, Format, Blank) = p
      <4>1. Read(o.text \o w, Format, Blank) = Read(w, Format, Read(o.text, Format, Blank))
        BY <3>4, <3>5, ReadConcat
      <4> QED
        BY <3>3, <3>4, <4>1 DEF LaidOutWell
    <3>7. Read(p.text, Strip, Bottom) = Strip[char][x]
      <4>1. Read(o.text \o w, Strip, Bottom) = Read(w, Strip, Read(o.text, Strip, Bottom))
        BY <3>4, <3>5, ReadConcat
      <4> QED
        BY <3>3, <3>4, <4>1 DEF LaidOutWell, x
    <3>8. Strip[char][x].scan = ScanBoth[char][o.scan]
      BY <2>3, <3>3 DEF Strip, StripStates
    <3>9. LaidOutWell(u, p)
      BY <2>1, <2>2, <2>5, <2>8, <2>12, <3>2, <3>6, <3>7, <3>8 DEF LaidOutWell
    <3> QED
      BY <2>1, <2>3, <2>9, <2>12, <3>2, <3>9 DEF p, u
  <2> QED
    BY <2>10, <2>11, <2>12
<1>4. text \in S
  <2> HIDE DEF S
  <2> QED
    BY <1>2, <1>3, TextInduction
<1> QED
  BY <1>1, <1>4

\* Laying out any text changes white space outside strings alone, and nothing
\* the second time; it throws exactly where more brackets close than were opened.
LEMMA SoftFormatDoes ==
    ASSUME NEW text \in Text
    PROVE  LET out == SoftFormatJson(text)
           IN  /\ out.throws <=> \E i \in DOMAIN text : Depth(text, i) < 0
               /\ ~out.throws => /\ Bare(out.text) = Bare(text)
                                 /\ SoftFormatJson(out.text).text = out.text
<1> DEFINE out == SoftFormatJson(text)
<1>1. out = Read(text, Format, Blank)
  BY DEF SoftFormatJson, Blank
<1>2. (out.throws <=> TooDeep(text)) /\ (~out.throws => LaidOutWell(text, out))
  BY <1>1, FormatSound
<1>3. DOMAIN text = 1 .. Len(text)
  BY DEF Text
<1>4. ASSUME ~out.throws
      PROVE  Bare(out.text) = Bare(text) /\ SoftFormatJson(out.text).text = out.text
  <2>1. Read(out.text, Format, Blank) = out /\ Read(out.text, Strip, Bottom) = Read(text, Strip, Bottom)
    BY <1>2, <1>4 DEF LaidOutWell
  <2> HIDE DEF out
  <2> QED
    BY <2>1 DEF SoftFormatJson, Blank, Bare, Bottom
<1> HIDE DEF out
<1>5. out.throws <=> \E i \in DOMAIN text : Depth(text, i) < 0
  BY <1>2, <1>3 DEF TooDeep
<1> QED
  BY <1>4, <1>5 DEF out

----------------------------------------------------------------------------
(* The work *)

\* The invariant: the result is what the functions of the page make of the text.
Given ==
    /\ work \in [op : {"strip"}, text : Commented] \cup [op : {"lay out"}, text : Scattered]
    /\ \/ result = Pending
       \/ /\ work.op = "strip"
          /\ result = [strict |-> RemoveComments(work.text),
                       safe   |-> SafeRemoveComments(work.text),
                       cut    |-> CutAnywhere(work.text)]
       \/ /\ work.op = "lay out"
          /\ result = SoftFormatJson(work.text)

LEMMA AlwaysGiven == Spec => []Given
<1>1. Init => Given
  BY DEF Init, Given
<1>2. Given /\ [Next]_<<work, result>> => Given'
  <2> SUFFICES ASSUME Given, [Next]_<<work, result>> PROVE Given'
    OBVIOUS
  <2>1. CASE UNCHANGED <<work, result>>
    BY <2>1 DEF Given
  <2>2. CASE Next /\ Strips
    BY <2>2 DEF Given, Next, Strips
  <2>3. CASE Next /\ LaysOut
    BY <2>3 DEF Given, Next, LaysOut
  <2> QED
    BY <2>1, <2>2, <2>3 DEF Next
<1> QED
  BY <1>1, <1>2, PTL DEF Spec

LEMMA GivenStrip ==
    ASSUME Given, Done("strip")
    PROVE  /\ work.text \in Text
           /\ result.strict = RemoveComments(work.text)
           /\ result.safe = SafeRemoveComments(work.text)
           /\ result.cut = CutAnywhere(work.text)
<1>1. work.op = "strip" /\ result # Pending
  BY DEF Done
<1>2. result = [strict |-> RemoveComments(work.text),
                safe   |-> SafeRemoveComments(work.text),
                cut    |-> CutAnywhere(work.text)]
  BY <1>1 DEF Given
<1>3. work.text \in Commented
  BY <1>1 DEF Given
<1> QED
  BY <1>2, <1>3, CleaningAssumption DEF Text

\* removeComments takes out the comments of any text, and nothing else.
THEOREM CommentsAlwaysStripped == Spec => []StripsComments
<1>1. Given => StripsComments
  <2> SUFFICES ASSUME Given, Done("strip") PROVE result.strict = Uncommented(work.text)
    BY DEF StripsComments
  <2> QED
    BY GivenStrip, CommentsOut
<1> QED
  BY <1>1, AlwaysGiven, PTL

\* What either function leaves of any text, if it is JSON then, is left by the
\* other too and stays as it is when punctuation is repaired.
THEOREM JsonAlwaysReadAlike == Spec => []JsonReadAlike
<1>1. Given => JsonReadAlike
  <2> SUFFICES ASSUME Given, Done("strip"),
                      NEW text \in {result.strict, result.safe}, MayBeJson(text)
               PROVE  result.strict = result.safe /\ SmartPreprocess(text) = text
    BY DEF JsonReadAlike
  <2> QED
    BY GivenStrip, OneReading
<1> QED
  BY <1>1, AlwaysGiven, PTL

\* Cutting at every // makes no document of a text that is none without its comments.
THEOREM FallbackNeverAdds == Spec => []FallbackAddsNothing
<1>1. Given => FallbackAddsNothing
  <2> SUFFICES ASSUME Given, Done("strip"), MayBeJson(result.cut) PROVE result.cut = result.strict
    BY DEF FallbackAddsNothing
  <2> QED
    BY GivenStrip, OneReading
<1> QED
  BY <1>1, AlwaysGiven, PTL

\* Laying out any text of brackets, strings and anything else changes white space
\* outside strings alone, once, and throws exactly where it must.
THEOREM LayoutAlwaysSound == Spec => []SoftFormatSound
<1>1. Given => SoftFormatSound
  <2> SUFFICES ASSUME Given, Done("lay out")
               PROVE  /\ result.throws <=> \E i \in DOMAIN work.text : Depth(work.text, i) < 0
                      /\ ~result.throws => /\ Bare(result.text) = Bare(work.text)
                                           /\ SoftFormatJson(result.text).text = result.text
    BY DEF SoftFormatSound
  <2>1. work.op = "lay out" /\ result # Pending
    BY DEF Done
  <2>2. result = SoftFormatJson(work.text) /\ work.text \in Scattered
    BY <2>1 DEF Given
  <2>3. work.text \in Text
    BY <2>2, CleaningAssumption DEF Text
  <2> QED
    BY <2>2, <2>3, SoftFormatDoes
<1> QED
  BY <1>1, AlwaysGiven, PTL
=============================================================================
