----------------------------- MODULE JsonTexts -----------------------------
(***************************************************************************)
(* What the converter page (static/index.html) does to the text of a JSON  *)
(* document before JSON.parse: it takes comments out, in two ways and with *)
(* a third as a fallback, replaces the punctuation of Chinese, lays out    *)
(* text that does not parse, and finds the comment of each field.          *)
(*                                                                         *)
(* A text is a sequence of characters, of which only those that the code   *)
(* tells apart have a name of their own.                                   *)
(***************************************************************************)
EXTENDS Compositions, SequencesExt, FiniteSets, TLC

Quote  == "double quote"
Single == "single quote"
Back   == "backslash"
Slash  == "slash"
Break  == "line break"
Space  == "space"
Open   == "opening bracket"
Close  == "closing bracket"
Comma  == "comma"
Colon  == "colon"
Wide   == "full-width comma"
Curly  == "curly quote"
Letter == "letter"

Chars == {Quote, Single, Back, Slash, Break, Space, Open, Close, Comma, Colon, Wide,
          Curly, Letter}
White == {Break, Space}

\* A loop over the characters of a text: step[char] maps what the loop has made
\* so far to what it makes of it at char.
Steps(text, step) == [i \in 1 .. Len(text) |-> step[text[i]]]
Read(text, step, start) == Outcome(Steps(text, step), start)

\* text.split('\n'): a break begins another line.
Split ==
    [char \in Chars |-> [lines \in Seq(Seq(Chars)) |->
        IF char = Break THEN Append(lines, <<>>)
        ELSE [lines EXCEPT ![Len(lines)] = Append(@, char)]]]

Lines(text) == Read(text, Split, <<<<>>>>)

\* lines.join('\n')
AddLine(line) == [text \in Seq(Chars) |-> text \o <<Break>> \o line]

Joined(lines) == Outcome([n \in 1 .. Len(lines) - 1 |-> AddLine(lines[n + 1])], lines[1])

StartsComment(line, i) == i < Len(line) /\ line[i] = Slash /\ line[i + 1] = Slash

\* A line up to the first place where a comment starts.
CutAt(line, starts) ==
    IF starts = {} THEN line ELSE SubSeq(line, 1, Min(starts) - 1)

----------------------------------------------------------------------------
(* Scanners: the state before each character of a text.                    *)

States == [inString : BOOLEAN, escaped : BOOLEAN, strQuote : {Quote, Single}]

Outside == [inString |-> FALSE, escaped |-> FALSE, strQuote |-> Quote]

\* The states of a scanner after 0, 1, ... characters.
Scan(text, step) == Through(Steps(text, step), Outside)

\* Mutant: a backslash escapes even if it is escaped.
ScanJsonTwice ==
    [char \in Chars |-> [state \in States |->
        IF char = Back THEN [state EXCEPT !.escaped = TRUE]
        ELSE IF char = Quote /\ ~state.escaped THEN [state EXCEPT !.inString = ~@]
        ELSE [state EXCEPT !.escaped = FALSE]]]

\* parseJsonWithComments and removeComments: double quotes only; a backslash
\* counts outside strings too.
ScanJson ==
    [char \in Chars |-> [state \in States |->
        IF char = Back /\ ~state.escaped THEN [state EXCEPT !.escaped = TRUE]
        ELSE IF char = Quote /\ ~state.escaped THEN [state EXCEPT !.inString = ~@]
        ELSE [state EXCEPT !.escaped = FALSE]]]

\* Mutant: a string ends at any quote.
ScanBothMixed ==
    [char \in Chars |-> [state \in States |->
        IF state.inString
        THEN IF state.escaped THEN [state EXCEPT !.escaped = FALSE]
             ELSE IF char = Back THEN [state EXCEPT !.escaped = TRUE]
             ELSE IF char \in {Quote, Single} THEN [state EXCEPT !.inString = FALSE]
             ELSE state
        ELSE IF char \in {Quote, Single}
             THEN [state EXCEPT !.inString = TRUE, !.strQuote = char] ELSE state]]

\* formatJsonIntelligently and softFormatJson: quotes of both kinds; a backslash
\* counts in strings only.
ScanBoth ==
    [char \in Chars |-> [state \in States |->
        IF state.inString
        THEN IF state.escaped THEN [state EXCEPT !.escaped = FALSE]
             ELSE IF char = Back THEN [state EXCEPT !.escaped = TRUE]
             ELSE IF char = state.strQuote THEN [state EXCEPT !.inString = FALSE]
             ELSE state
        ELSE IF char \in {Quote, Single}
             THEN [state EXCEPT !.inString = TRUE, !.strQuote = char] ELSE state]]

\* Where comments start on a line: each scanner starts anew there.
CommentStarts(line, step) ==
    {i \in 1 .. Len(line) : StartsComment(line, i) /\ ~Scan(line, step)[i - 1].inString}

----------------------------------------------------------------------------
(* Comments out *)

\* removeComments, of the tool and of parseJsonWithComments.
RemoveComments(text) ==
    Joined([n \in DOMAIN Lines(text) |->
               CutAt(Lines(text)[n], CommentStarts(Lines(text)[n], ScanJson))])

\* safeRemoveComments
SafeRemoveComments(text) ==
    Joined([n \in DOMAIN Lines(text) |->
               CutAt(Lines(text)[n], CommentStarts(Lines(text)[n], ScanBoth))])

\* What parseJsonWithComments tries when the text without comments does not
\* parse: replace(/\/\/.*$/gm, ''), strings or not.
CutAnywhere(text) ==
    Joined([n \in DOMAIN Lines(text) |->
               CutAt(Lines(text)[n],
                     {i \in 1 .. Len(Lines(text)[n]) : StartsComment(Lines(text)[n], i)})])

----------------------------------------------------------------------------
(* Repair *)

\* smartPreprocess: Chinese punctuation outside strings.
SmartPreprocess(text) ==
    LET states == Scan(text, ScanBoth)
    IN  [i \in 1 .. Len(text) |->
            IF states[i - 1].inString THEN text[i]
            ELSE IF text[i] = Wide THEN Comma
            ELSE IF text[i] = Curly THEN Quote ELSE text[i]]

\* A line break and the indentation of a level.
NewLine(level) == <<Break>> \o [i \in 1 .. 2 * level |-> Space]

\* Mutant: the white space of the text stays, next to the new one.
LaidOutKeepsSpace(char, level) ==
    CASE char = Open   -> <<char>> \o NewLine(level + 1)
      [] char = Close  -> NewLine(level - 1) \o <<char>>
      [] char = Comma  -> <<char>> \o NewLine(level)
      [] char = Colon  -> <<char, Space>>
      [] OTHER         -> <<char>>

\* What softFormatJson writes for a character outside strings, given the level.
LaidOut(char, level) ==
    CASE char = Open   -> <<char>> \o NewLine(level + 1)
      [] char = Close  -> NewLine(level - 1) \o <<char>>
      [] char = Comma  -> <<char>> \o NewLine(level)
      [] char = Colon  -> <<char, Space>>
      [] char \in White -> <<>>
      [] OTHER         -> <<char>>

Formats == [scan : States, text : Seq(Chars), level : Nat, throws : BOOLEAN]

\* What softFormatJson does at a character; below level 0, repeat(-1) throws.
Format ==
    [char \in Chars |-> [out \in Formats |->
        LET scan  == ScanBoth[char][out.scan]
            level == CASE out.scan.inString -> out.level
                       [] ~out.scan.inString /\ char = Open -> out.level + 1
                       [] ~out.scan.inString /\ char = Close -> out.level - 1
                       [] OTHER -> out.level
        IN  IF out.throws THEN out
            ELSE IF level < 0 THEN [out EXCEPT !.throws = TRUE]
            ELSE [scan |-> scan, level |-> level, throws |-> FALSE,
                  text |-> out.text \o IF out.scan.inString THEN <<char>>
                                       ELSE LaidOut(char, out.level)]]]

SoftFormatJson(text) ==
    Read(text, Format, [scan |-> Outside, text |-> <<>>, level |-> 0, throws |-> FALSE])

----------------------------------------------------------------------------
(* Comments of fields *)

NoField == "none"

\* One line: its comment goes to the field found last, before the first field of
\* the line itself takes its place.  (The field directly before the comment is
\* also looked for, to no effect.)
Attach(found, line) ==
    [comments |-> IF line.comment = NoField \/ found.current = NoField THEN found.comments
                  ELSE (found.current :> line.comment) @@ found.comments,
     current  |-> IF line.keys # <<>> THEN Head(line.keys) ELSE found.current]

\* The comments that parseJsonWithComments finds for the generated code.
FieldComments(lines) ==
    FoldLeft(Attach, [comments |-> <<>>, current |-> NoField], lines).comments

----------------------------------------------------------------------------
(* What a text means, to check the scanners against.                       *)

\* Backslashes escape in pairs: a character is escaped if the run of backslashes
\* before it is odd.
Escaped(line, i) ==
    LET run == {j \in 1 .. i - 1 : \A k \in j .. i - 1 : line[k] = Back}
    IN  Cardinality(run) % 2 = 1

\* A string is open where the quotes before it are odd in number.
InString(line, i) ==
    Cardinality({j \in 1 .. i - 1 : line[j] = Quote /\ ~Escaped(line, j)}) % 2 = 1

\* The lines of a text can be those of a JSON document: strings end on their
\* line, and outside strings there is nothing that JSON does not know.
MayBeJson(text) ==
    \A n \in DOMAIN Lines(text) :
        LET line == Lines(text)[n]
        IN  /\ ~InString(line, Len(line) + 1)
            /\ \A i \in DOMAIN line :
                  line[i] \in {Single, Back, Slash, Wide, Curly} => InString(line, i)

\* The comments of a text by that reading.
Uncommented(text) ==
    Joined([n \in DOMAIN Lines(text) |->
               LET line == Lines(text)[n]
               IN CutAt(line, {i \in DOMAIN line :
                                  StartsComment(line, i) /\ ~InString(line, i)})])

\* A text without the white space outside its strings.
Strip ==
    [char \in Chars |-> [out \in [scan : States, text : Seq(Chars)] |->
        [scan |-> ScanBoth[char][out.scan],
         text |-> IF out.scan.inString \/ char \notin White THEN Append(out.text, char)
                                                            ELSE out.text]]]

Bare(text) == Read(text, Strip, [scan |-> Outside, text |-> <<>>]).text

\* How deep a text is after i characters.
Depth(text, i) ==
    LET states == Scan(text, ScanBoth)
        Count(char) == Cardinality({j \in 1 .. i : text[j] = char /\ ~states[j - 1].inString})
    IN  Count(Open) - Count(Close)
=============================================================================
