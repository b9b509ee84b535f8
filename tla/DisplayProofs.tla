---------------------------- MODULE DisplayProofs ----------------------------
(***************************************************************************)
(* Proofs about the LCD, for displays, buffers, texts and numbers of       *)
(* updates of any size: an update that arrived whole is shown, wherever    *)
(* earlier ones left the cursor, and only forced updates lose bytes.       *)
(***************************************************************************)
EXTENDS Display, SequenceTheorems, TLAPS

\* How many bytes one update has.
UpdateLen == 2 * LCD_COLS + 2

Memory == [0 .. 1 -> [0 .. DDRAM_COLS - 1 -> STRING]]

Lcd == [memory: Memory, row: 0 .. 1, col: 0 .. DDRAM_COLS - 1, line: 0 .. 1]

TypeOK ==
  /\ tx \in Seq(STRING) /\ rx \in Seq(STRING)
  /\ ready \in BOOLEAN
  /\ lcd \in Lcd
  /\ elapsed \in BOOLEAN
  /\ DOMAIN last = {"text", "forced", "harm", "number"}
  /\ IsText(last.text) /\ last.forced \in BOOLEAN

-----------------------------------------------------------------------------
(* What is written                                                         *)

\* A formatted line is as wide as the display and has no control characters.
LEMMA FittedType ==
  ASSUME NEW raw \in Seq(STRING), \A i \in 1 .. Len(raw) : raw[i] \notin {CR, NL}
  PROVE  /\ Fitted(raw) \in Seq(STRING) /\ Len(Fitted(raw)) = LCD_COLS
         /\ \A i \in 1 .. LCD_COLS :
              /\ Fitted(raw)[i] = IF i <= Len(raw) THEN raw[i] ELSE Blank
              /\ Fitted(raw)[i] \notin {CR, NL}
<1>1. \A i \in 1 .. LCD_COLS :
        (IF i <= Len(raw) THEN raw[i] ELSE Blank) \in STRING \ {CR, NL}
  BY DisplayAssumption
<1>2. Fitted(raw) \in [1 .. LCD_COLS -> STRING] /\ LCD_COLS \in Nat
  BY <1>1, DisplayAssumption DEF Fitted
<1>3. Fitted(raw) \in Seq(STRING) /\ Len(Fitted(raw)) = LCD_COLS
  <2> HIDE DEF Fitted
  <2> QED
    BY <1>2
<1> QED
  BY <1>1, <1>3 DEF Fitted

\* The bytes of an update: CR, the first line, NL, the second line.
LEMMA WrittenBytes ==
  ASSUME NEW text, IsText(text)
  PROVE  /\ Written(text) \in Seq(STRING) /\ Len(Written(text)) = UpdateLen
         /\ Written(text)[1] = CR /\ Written(text)[LCD_COLS + 2] = NL
         /\ \A c \in 0 .. LCD_COLS - 1 :
              /\ Written(text)[c + 2] = IF c < Len(text.line1) THEN text.line1[c + 1] ELSE Blank
              /\ Written(text)[c + 2] \notin {CR, NL}
              /\ Written(text)[LCD_COLS + 3 + c]
                   = IF c < Len(text.line2) THEN text.line2[c + 1] ELSE Blank
              /\ Written(text)[LCD_COLS + 3 + c] \notin {CR, NL}
<1> DEFINE a == Fitted(text.line1)
           b == Fitted(text.line2)
<1>1. /\ a \in Seq(STRING) /\ Len(a) = LCD_COLS
      /\ b \in Seq(STRING) /\ Len(b) = LCD_COLS
      /\ \A i \in 1 .. LCD_COLS : a[i] \notin {CR, NL} /\ b[i] \notin {CR, NL}
      /\ \A i \in 1 .. LCD_COLS :
           /\ a[i] = IF i <= Len(text.line1) THEN text.line1[i] ELSE Blank
           /\ b[i] = IF i <= Len(text.line2) THEN text.line2[i] ELSE Blank
  BY FittedType DEF IsText
<1>2. Written(text) = <<CR>> \o a \o <<NL>> \o b /\ LCD_COLS \in Nat \ {0}
      /\ CR \in STRING /\ NL \in STRING
      /\ Len(text.line1) \in Nat /\ Len(text.line2) \in Nat
  BY DisplayAssumption DEF Written, IsText
<1> HIDE DEF a, b
<1>3. /\ Written(text) \in Seq(STRING) /\ Len(Written(text)) = UpdateLen
      /\ Written(text)[1] = CR /\ Written(text)[LCD_COLS + 2] = NL
      /\ \A i \in 1 .. LCD_COLS : Written(text)[i + 1] = a[i]
      /\ \A i \in 1 .. LCD_COLS : Written(text)[LCD_COLS + 2 + i] = b[i]
  <2> DEFINE s == <<CR>> \o a
             t == s \o <<NL>>
  <2>1. /\ s \in Seq(STRING) /\ Len(s) = LCD_COLS + 1
        /\ s[1] = CR /\ \A i \in 1 .. LCD_COLS : s[i + 1] = a[i]
    BY <1>1, <1>2
  <2> HIDE DEF s
  <2>2. /\ t \in Seq(STRING) /\ Len(t) = LCD_COLS + 2
        /\ t[LCD_COLS + 2] = NL /\ \A i \in 1 .. LCD_COLS + 1 : t[i] = s[i]
    BY <1>2, <2>1
  <2>3. Written(text) = t \o b
    BY <1>2 DEF s
  <2> HIDE DEF t
  <2>4. /\ Written(text) \in Seq(STRING) /\ Len(Written(text)) = (LCD_COLS + 2) + LCD_COLS
        /\ \A i \in 1 .. LCD_COLS + 2 : Written(text)[i] = t[i]
        /\ \A i \in 1 .. LCD_COLS : Written(text)[LCD_COLS + 2 + i] = b[i]
    <3>1. /\ Written(text) \in Seq(STRING) /\ Len(Written(text)) = (LCD_COLS + 2) + LCD_COLS
          /\ \A i \in 1 .. (LCD_COLS + 2) + LCD_COLS : Written(text)[i] =
               IF i <= LCD_COLS + 2 THEN t[i] ELSE b[i - (LCD_COLS + 2)]
      <4>1. t \in Seq(STRING) /\ b \in Seq(STRING)
        BY <1>1, <2>2
      <4>2. /\ t \o b \in Seq(STRING) /\ Len(t \o b) = Len(t) + Len(b)
            /\ \A i \in 1 .. Len(t) + Len(b) : (t \o b)[i] =
                 IF i <= Len(t) THEN t[i] ELSE b[i - Len(t)]
        BY <4>1, ConcatProperties
      <4>3. Len(t) = LCD_COLS + 2 /\ Len(b) = LCD_COLS
        BY <1>1, <2>2
      <4> QED
        BY <2>3, <4>2, <4>3, Zenon
    <3>2. \A i \in 1 .. LCD_COLS + 2 : i \in 1 .. (LCD_COLS + 2) + LCD_COLS /\ i <= LCD_COLS + 2
      BY <1>2
    <3>3. \A i \in 1 .. LCD_COLS :
            /\ LCD_COLS + 2 + i \in 1 .. (LCD_COLS + 2) + LCD_COLS
            /\ ~(LCD_COLS + 2 + i <= LCD_COLS + 2) /\ (LCD_COLS + 2 + i) - (LCD_COLS + 2) = i
      BY <1>2
    <3> QED
      BY <3>1, <3>2, <3>3
  <2>5. \A i \in 1 .. LCD_COLS : Written(text)[i + 1] = a[i]
    <3> SUFFICES ASSUME NEW i \in 1 .. LCD_COLS
                 PROVE  Written(text)[i + 1] = a[i]
      OBVIOUS
    <3>1. i + 1 \in 1 .. LCD_COLS + 1 /\ i + 1 \in 1 .. LCD_COLS + 2
      BY <1>2
    <3> QED
      BY <2>1, <2>2, <2>4, <3>1
  <2>6. Written(text)[1] = CR /\ Written(text)[LCD_COLS + 2] = NL
    <3>1. 1 \in 1 .. LCD_COLS + 1 /\ 1 \in 1 .. LCD_COLS + 2 /\ LCD_COLS + 2 \in 1 .. LCD_COLS + 2
      BY <1>2
    <3> QED
      BY <2>1, <2>2, <2>4, <3>1
  <2>7. (LCD_COLS + 2) + LCD_COLS = UpdateLen
    BY <1>2 DEF UpdateLen
  <2> QED
    BY <2>4, <2>5, <2>6, <2>7
<1>4. ASSUME NEW c \in 0 .. LCD_COLS - 1
      PROVE  /\ Written(text)[c + 2] = IF c < Len(text.line1) THEN text.line1[c + 1] ELSE Blank
             /\ Written(text)[c + 2] \notin {CR, NL}
             /\ Written(text)[LCD_COLS + 3 + c]
                  = IF c < Len(text.line2) THEN text.line2[c + 1] ELSE Blank
             /\ Written(text)[LCD_COLS + 3 + c] \notin {CR, NL}
  <2>1. c + 1 \in 1 .. LCD_COLS /\ (c + 1) + 1 = c + 2 /\ LCD_COLS + 2 + (c + 1) = LCD_COLS + 3 + c
        /\ (c < Len(text.line1) <=> c + 1 <= Len(text.line1))
        /\ (c < Len(text.line2) <=> c + 1 <= Len(text.line2))
    BY <1>2
  <2>2. Written(text)[c + 2] = a[c + 1] /\ Written(text)[LCD_COLS + 3 + c] = b[c + 1]
    BY <1>3, <2>1
  <2> QED
    BY <1>1, <2>1, <2>2
<1> QED
  BY <1>3, <1>4

-----------------------------------------------------------------------------
(* The sketch                                                              *)

\* What the sketch does with one character.
Received(l, char) ==
  CASE char = NL -> toggle_line(l)
    [] char = CR -> CarriageReturn(l)
    [] OTHER -> Printed(l, char)

\* The cursor stays inside the display's memory.
LEMMA ReceivedType ==
  ASSUME NEW l \in Lcd, NEW char \in STRING
  PROVE  Received(l, char) \in Lcd
<1>1. /\ DDRAM_COLS \in Nat \ {0} /\ l.memory \in Memory /\ l.row \in 0 .. 1
      /\ l.col \in 0 .. DDRAM_COLS - 1 /\ l.line \in 0 .. 1
  BY DisplayAssumption DEF Lcd
<1>2. toggle_line(l) \in Lcd /\ CarriageReturn(l) \in Lcd
  <2> DEFINE other == 1 - l.line
  <2>1. toggle_line(l) = [l EXCEPT !.line = other, !.row = other, !.col = 0]
    BY DEF toggle_line, Lcd
  <2>2. 0 \in 0 .. DDRAM_COLS - 1 /\ other \in 0 .. 1 /\ 0 \in 0 .. 1
    BY <1>1
  <2> HIDE DEF other
  <2> QED
    BY <2>1, <2>2 DEF CarriageReturn, Lcd
<1>3. Printed(l, char) \in Lcd
  <2> DEFINE m == [l.memory EXCEPT ![l.row][l.col] = char]
             col == (l.col + 1) % DDRAM_COLS
             row == IF l.col + 1 = DDRAM_COLS THEN 1 - l.row ELSE l.row
  <2>1. m \in Memory
    BY <1>1 DEF Memory
  <2>2. col \in 0 .. DDRAM_COLS - 1 /\ row \in 0 .. 1
    BY <1>1
  <2>3. Printed(l, char) = [l EXCEPT !.memory = m, !.col = col, !.row = row]
    BY DEF Printed, Lcd
  <2> HIDE DEF m, col, row
  <2> QED
    BY <2>1, <2>2, <2>3 DEF Lcd
<1> QED
  BY <1>2, <1>3 DEF Received

\* The display after the first k bytes of w: what they print is there, and the
\* cursor and the row toggle are where the next one expects them.
Progress(l, w, k) ==
  /\ \A c \in 0 .. LCD_COLS - 1 : c + 1 < k => l.memory[0][c] = w[c + 2]
  /\ \A c \in 0 .. LCD_COLS - 1 : c + LCD_COLS + 2 < k => l.memory[1][c] = w[LCD_COLS + 3 + c]
  /\ k <= LCD_COLS + 1 => l.line = 0
  /\ k <= LCD_COLS => l.row = 0 /\ l.col = k - 1
  /\ LCD_COLS + 2 <= k /\ k < UpdateLen => l.row = 1 /\ l.col = k - (LCD_COLS + 2)

\* The first byte of an update is a carriage return: wherever the cursor was,
\* it is at the beginning of the first row afterwards.
LEMMA FirstByte ==
  ASSUME NEW l \in Lcd, NEW text, IsText(text)
  PROVE  Progress(Received(l, Written(text)[1]), Written(text), 1)
<1>1. Written(text)[1] = CR /\ CR # NL /\ LCD_COLS \in Nat \ {0}
  BY WrittenBytes, DisplayAssumption
<1>2. Received(l, Written(text)[1]) = CarriageReturn(l)
  BY <1>1 DEF Received
<1>3. CarriageReturn(l).line = 0 /\ CarriageReturn(l).row = 0 /\ CarriageReturn(l).col = 0
  BY DEF CarriageReturn, Lcd
<1> QED
  BY <1>1, <1>2, <1>3 DEF Progress

\* Every further byte prints its character in its place or changes the row.
LEMMA NextByte ==
  ASSUME NEW l \in Lcd, NEW text, IsText(text), NEW k \in 1 .. UpdateLen - 1,
         Progress(l, Written(text), k)
  PROVE  Progress(Received(l, Written(text)[k + 1]), Written(text), k + 1)
<1> DEFINE w == Written(text)
           char == w[k + 1]
<1>1. /\ LCD_COLS \in Nat \ {0} /\ DDRAM_COLS \in Nat /\ LCD_COLS <= DDRAM_COLS
      /\ k \in Nat /\ 1 <= k /\ k <= 2 * LCD_COLS + 1 /\ UpdateLen = 2 * LCD_COLS + 2
  BY DisplayAssumption DEF UpdateLen
<1>2. /\ w[LCD_COLS + 2] = NL
      /\ \A c \in 0 .. LCD_COLS - 1 : w[c + 2] \notin {CR, NL} /\ w[LCD_COLS + 3 + c] \notin {CR, NL}
  BY WrittenBytes
<1>3. Progress(l, w, k)
  OBVIOUS
<1>4. /\ l.memory \in Memory /\ l.row \in 0 .. 1 /\ l.col \in 0 .. DDRAM_COLS - 1
      /\ l.line \in 0 .. 1
  BY DEF Lcd
<1> HIDE DEF w
<1>5. CASE k = LCD_COLS + 1
  <2>1. char = NL /\ CR # NL
    BY <1>1, <1>2, <1>5, DisplayAssumption
  <2>2. Received(l, char) = toggle_line(l)
    BY <2>1 DEF Received
  <2>3. toggle_line(l).line = 1 /\ toggle_line(l).row = 1 /\ toggle_line(l).col = 0
        /\ toggle_line(l).memory = l.memory
    BY <1>1, <1>3, <1>5 DEF toggle_line, Lcd, Progress
  <2>4. \A c \in 0 .. LCD_COLS - 1 : l.memory[0][c] = w[c + 2]
    BY <1>1, <1>3, <1>5 DEF Progress
  <2> QED
    BY <1>1, <1>5, <2>2, <2>3, <2>4 DEF Progress, w
<1>6. ASSUME char \notin {CR, NL}
      PROVE  /\ Received(l, char).memory = [l.memory EXCEPT ![l.row][l.col] = char]
             /\ Received(l, char).line = l.line
             /\ l.col + 1 < DDRAM_COLS =>
                  Received(l, char).row = l.row /\ Received(l, char).col = l.col + 1
  <2>1. Received(l, char) = Printed(l, char)
    BY <1>6 DEF Received
  <2>2. l.col + 1 < DDRAM_COLS => (l.col + 1) % DDRAM_COLS = l.col + 1 /\ l.col + 1 # DDRAM_COLS
    BY <1>1, <1>4
  <2> HIDE DEF char
  <2> QED
    BY <1>4, <2>1, <2>2 DEF Printed, Lcd
<1>7. CASE k <= LCD_COLS
  <2>1. char \notin {CR, NL} /\ l.row = 0 /\ l.col = k - 1 /\ l.line = 0
        /\ k - 1 \in 0 .. LCD_COLS - 1 /\ k - 1 \in 0 .. DDRAM_COLS - 1 /\ char = w[(k - 1) + 2]
    <3>1. k - 1 \in 0 .. LCD_COLS - 1 /\ k - 1 \in 0 .. DDRAM_COLS - 1 /\ (k - 1) + 2 = k + 1
      BY <1>1, <1>7
    <3> QED
      BY <1>1, <1>2, <1>3, <1>7, <3>1 DEF Progress
  <2>2. \A c \in 0 .. LCD_COLS - 1 : c + 1 < k + 1 => Received(l, char).memory[0][c] = w[c + 2]
    <3> SUFFICES ASSUME NEW c \in 0 .. LCD_COLS - 1, c + 1 < k + 1
                 PROVE  Received(l, char).memory[0][c] = w[c + 2]
      OBVIOUS
    <3>1. CASE c = k - 1
      BY <1>1, <1>4, <1>6, <2>1, <3>1 DEF Memory
    <3>2. CASE c # k - 1
      <4>1. c + 1 < k /\ c \in 0 .. DDRAM_COLS - 1
        BY <1>1, <3>2
      <4>2. Received(l, char).memory = [l.memory EXCEPT ![0][k - 1] = char]
        BY <1>6, <2>1
      <4>3. Received(l, char).memory[0][c] = l.memory[0][c]
        <5> HIDE DEF char
        <5> QED
          BY <1>4, <3>2, <4>1, <4>2 DEF Memory
      <4> QED
        BY <1>3, <4>1, <4>3 DEF Progress
    <3> QED
      BY <3>1, <3>2
  <2>3. k + 1 <= LCD_COLS => Received(l, char).row = 0 /\ Received(l, char).col = k
    BY <1>1, <1>6, <2>1
  <2>4. Received(l, char).line = 0
    BY <1>6, <2>1
  <2> HIDE DEF char
  <2> QED
    BY <1>1, <1>7, <2>2, <2>3, <2>4 DEF Progress, w, char
<1>8. CASE LCD_COLS + 2 <= k
  <2> DEFINE col == k - (LCD_COLS + 2)
  <2>1. char \notin {CR, NL} /\ l.row = 1 /\ l.col = col
        /\ col \in 0 .. LCD_COLS - 1 /\ col \in 0 .. DDRAM_COLS - 1 /\ char = w[LCD_COLS + 3 + col]
    <3>1. col \in 0 .. LCD_COLS - 1 /\ col \in 0 .. DDRAM_COLS - 1 /\ LCD_COLS + 3 + col = k + 1
      BY <1>1, <1>8
    <3> QED
      BY <1>1, <1>2, <1>3, <1>8, <3>1 DEF Progress
  <2>2. \A c \in 0 .. LCD_COLS - 1 : Received(l, char).memory[0][c] = w[c + 2]
    <3> SUFFICES ASSUME NEW c \in 0 .. LCD_COLS - 1
                 PROVE  Received(l, char).memory[0][c] = w[c + 2]
      OBVIOUS
    <3>1. c + 1 < k /\ c \in 0 .. DDRAM_COLS - 1
      BY <1>1, <1>8
    <3>2. Received(l, char).memory[0][c] = l.memory[0][c]
      BY <1>1, <1>4, <1>6, <2>1, <3>1 DEF Memory
    <3> QED
      BY <1>3, <3>1, <3>2 DEF Progress
  <2>3. \A c \in 0 .. LCD_COLS - 1 : c + LCD_COLS + 2 < k + 1 =>
          Received(l, char).memory[1][c] = w[LCD_COLS + 3 + c]
    <3> SUFFICES ASSUME NEW c \in 0 .. LCD_COLS - 1, c + LCD_COLS + 2 < k + 1
                 PROVE  Received(l, char).memory[1][c] = w[LCD_COLS + 3 + c]
      OBVIOUS
    <3>1. CASE c = col
      BY <1>1, <1>4, <1>6, <2>1, <3>1 DEF Memory
    <3>2. CASE c # col
      <4>1. c + LCD_COLS + 2 < k /\ c \in 0 .. DDRAM_COLS - 1
        BY <1>1, <3>2
      <4>2. Received(l, char).memory[1][c] = l.memory[1][c]
        BY <1>1, <1>4, <1>6, <2>1, <3>2, <4>1 DEF Memory
      <4> QED
        BY <1>3, <4>1, <4>2 DEF Progress
    <3> QED
      BY <3>1, <3>2
  <2>4. k + 1 < UpdateLen =>
          Received(l, char).row = 1 /\ Received(l, char).col = (k + 1) - (LCD_COLS + 2)
    <3>1. k + 1 < UpdateLen => col + 1 < DDRAM_COLS /\ col + 1 = (k + 1) - (LCD_COLS + 2)
      BY <1>1, <1>8
    <3> HIDE DEF col
    <3> QED
      BY <1>6, <2>1, <3>1
  <2> HIDE DEF char, col
  <2> QED
    BY <1>1, <1>8, <2>2, <2>3, <2>4 DEF Progress, w, char
<1>9. k <= LCD_COLS \/ k = LCD_COLS + 1 \/ LCD_COLS + 2 <= k
  BY <1>1
<1> QED
  BY <1>5, <1>7, <1>8, <1>9 DEF w

-----------------------------------------------------------------------------
(* The serial line                                                         *)

\* How many bytes are under way, and the i-th of them, counted from the last.
Pending == Len(tx) + Len(rx)

FromEnd(i) ==
  IF i <= Len(tx) THEN tx[Len(tx) + 1 - i] ELSE rx[Len(rx) + Len(tx) + 1 - i]

\* Once MIN_INTERVAL has passed nothing is under way, so an update that is not
\* forced has the buffer for itself.
BufferInv ==
  /\ TypeOK
  /\ elapsed => tx = <<>> /\ rx = <<>>
  /\ ~last.forced => last.harm # "overflow" /\ Pending <= UpdateLen

\* Unless it came to harm, the last update is what is under way last, and what
\* of it is not under way any more has been printed.
ShownInv ==
  last.harm = "none" =>
    /\ \A i \in 1 .. UpdateLen : i <= Pending => FromEnd(i) = Written(last.text)[UpdateLen + 1 - i]
    /\ Pending < UpdateLen => Progress(lcd, Written(last.text), UpdateLen - Pending)

\* Before setup nothing is received, so an update unharmed then is under way as
\* a whole.
SetupInv ==
  ~ready => rx = <<>> /\ (last.harm = "none" => Pending = UpdateLen)

\* What is written has the length of an update, and is not empty.
LEMMA UpdateLenType == UpdateLen \in Nat /\ 0 < UpdateLen /\ UpdateLen <= RX_BUFFER /\ RX_BUFFER \in Nat
BY DisplayAssumption DEF UpdateLen

\* Two blank lines are a text.
LEMMA BlankIsText == IsText([line1 |-> <<>>, line2 |-> <<>>])
BY DEF IsText

\* When nothing waits to be transmitted, an update is what is under way last.
LEMMA WrittenLast ==
  ASSUME rx' \in Seq(STRING), NEW text, IsText(text), tx' = Written(text), last'.text = text
  PROVE  /\ Pending' >= UpdateLen /\ (rx' = <<>> => Pending' = UpdateLen)
         /\ ShownInv'
<1>1. Written(text) \in Seq(STRING) /\ Len(Written(text)) = UpdateLen
  BY WrittenBytes
<1>2. Pending' = UpdateLen + Len(rx') /\ Len(rx') \in Nat
  BY <1>1 DEF Pending
<1>3. \A i \in 1 .. UpdateLen : FromEnd(i)' = Written(last'.text)[UpdateLen + 1 - i]
  BY <1>1 DEF FromEnd
<1>4. ~(Pending' < UpdateLen) /\ Pending' >= UpdateLen /\ (rx' = <<>> => Pending' = UpdateLen)
  BY <1>2, UpdateLenType
<1> QED
  BY <1>3, <1>4 DEF ShownInv

\* What setup leaves on the display is a display.
LEMMA FreshType == Fresh \in Lcd
BY DisplayAssumption DEF Fresh, Lcd, Memory

\* Initially the two blank lines of Display::new are under way.
LEMMA InitDisplayInv == Init => BufferInv /\ ShownInv /\ SetupInv
<1> SUFFICES ASSUME Init
             PROVE  BufferInv /\ ShownInv /\ SetupInv
  OBVIOUS
<1> DEFINE blank == [line1 |-> <<>>, line2 |-> <<>>]
<1>1. IsText(blank) /\ tx = Written(blank) /\ rx = <<>> /\ rx \in Seq(STRING) /\ lcd = Fresh
      /\ elapsed = FALSE /\ ready = TRUE
      /\ last = [text |-> blank, forced |-> TRUE, harm |-> "none", number |-> 0]
  BY BlankIsText DEF Init
<1> HIDE DEF blank
<1>2. Written(blank) \in Seq(STRING) /\ Len(Written(blank)) = UpdateLen
  BY <1>1, WrittenBytes
<1>3. BufferInv
  BY <1>1, <1>2, FreshType DEF BufferInv, TypeOK
<1>4. Pending = UpdateLen /\ \A i \in 1 .. UpdateLen : FromEnd(i) = Written(last.text)[UpdateLen + 1 - i]
  BY <1>1, <1>2, UpdateLenType DEF Pending, FromEnd
<1> QED
  BY <1>1, <1>3, <1>4, UpdateLenType DEF ShownInv, SetupInv

\* An update is what is under way last, and all there is unless it is forced.
LEMMA UpdateInv ==
  ASSUME BufferInv, SetupInv, NEW text \in Texts, NEW force \in BOOLEAN, Update(text, force)
  PROVE  BufferInv' /\ ShownInv' /\ SetupInv'
<1>1. /\ tx' = Written(text) /\ elapsed' = FALSE /\ rx' = rx /\ lcd' = lcd /\ ready' = ready
      /\ last' = [text |-> text, forced |-> force, harm |-> "none", number |-> last.number + 1]
      /\ force \/ elapsed
  BY DEF Update, MayUpdate
<1>2. IsText(text) /\ rx' \in Seq(STRING)
  BY <1>1, DisplayAssumption DEF BufferInv, TypeOK
<1>3. Written(text) \in Seq(STRING)
  BY <1>2, WrittenBytes
<1>4. ShownInv' /\ (rx' = <<>> => Pending' = UpdateLen)
  BY <1>1, <1>2, WrittenLast
<1>5. TypeOK'
  BY <1>1, <1>2, <1>3 DEF BufferInv, TypeOK
<1>6. ~last'.forced => last'.harm # "overflow" /\ Pending' <= UpdateLen
  BY <1>1, <1>4, UpdateLenType DEF BufferInv
<1> QED
  BY <1>1, <1>4, <1>5, <1>6 DEF BufferInv, SetupInv

\* A byte that is transmitted and not lost stays where it is in what is under
\* way.
LEMMA TransmitInv ==
  ASSUME BufferInv, ShownInv, SetupInv, Transmit
  PROVE  BufferInv' /\ ShownInv' /\ SetupInv'
<1>1. /\ tx # <<>> /\ tx' = Tail(tx) /\ lcd' = lcd /\ elapsed' = elapsed /\ ready' = ready
      /\ tx \in Seq(STRING) /\ rx \in Seq(STRING)
  BY DEF Transmit, BufferInv, TypeOK
<1>2. /\ Head(tx) \in STRING /\ tx' \in Seq(STRING) /\ Len(tx') = Len(tx) - 1 /\ Len(tx) \in Nat \ {0}
      /\ Head(tx) = tx[1] /\ \A i \in 1 .. Len(tx) - 1 : tx'[i] = tx[i + 1]
      /\ Len(rx) \in Nat
  BY <1>1
<1>3. CASE ready /\ Len(rx) < RX_BUFFER
  <2>1. /\ rx' = Append(rx, Head(tx)) /\ last' = last
    BY <1>3 DEF Transmit
  <2>2. /\ rx' \in Seq(STRING) /\ Len(rx') = Len(rx) + 1 /\ rx'[Len(rx) + 1] = tx[1]
        /\ \A i \in 1 .. Len(rx) : rx'[i] = rx[i]
    BY <1>1, <1>2, <2>1
  <2>3. Pending' = Pending
    BY <1>2, <2>2 DEF Pending
  <2>4. \A i \in 1 .. Pending : FromEnd(i)' = FromEnd(i)
    <3> SUFFICES ASSUME NEW i \in 1 .. Pending
                 PROVE  FromEnd(i)' = FromEnd(i)
      OBVIOUS
    <3>1. CASE i <= Len(tx) - 1
      <4>1. i <= Len(tx) /\ i <= Len(tx') /\ Len(tx') + 1 - i \in 1 .. Len(tx) - 1
            /\ (Len(tx') + 1 - i) + 1 = Len(tx) + 1 - i
        BY <1>2, <3>1
      <4> QED
        BY <1>2, <4>1 DEF FromEnd
    <3>2. CASE i = Len(tx)
      <4>1. i <= Len(tx) /\ ~(i <= Len(tx')) /\ Len(tx) + 1 - i = 1
            /\ Len(rx') + Len(tx') + 1 - i = Len(rx) + 1
        BY <1>2, <2>2, <3>2
      <4> QED
        BY <2>2, <4>1 DEF FromEnd
    <3>3. CASE i > Len(tx)
      <4>1. ~(i <= Len(tx)) /\ ~(i <= Len(tx')) /\ Len(rx) + Len(tx) + 1 - i \in 1 .. Len(rx)
            /\ Len(rx') + Len(tx') + 1 - i = Len(rx) + Len(tx) + 1 - i
        BY <1>2, <2>2, <3>3 DEF Pending
      <4> QED
        BY <2>2, <4>1 DEF FromEnd
    <3> QED
      BY <1>2, <3>1, <3>2, <3>3 DEF Pending
  <2>5. ShownInv'
    BY <1>1, <2>1, <2>3, <2>4, UpdateLenType DEF ShownInv
  <2>6. BufferInv'
    BY <1>1, <1>2, <2>1, <2>2, <2>3 DEF BufferInv, TypeOK
  <2> QED
    BY <1>1, <1>3, <2>5, <2>6 DEF SetupInv
<1>4. CASE ~(ready /\ Len(rx) < RX_BUFFER)
  <2>1. rx' = rx /\ last' = [last EXCEPT !.harm = IF ready THEN "overflow" ELSE "reset"]
    BY <1>4 DEF Transmit
  <2>2. last'.harm = (IF ready THEN "overflow" ELSE "reset") /\ last'.forced = last.forced
        /\ last'.text = last.text /\ DOMAIN last' = DOMAIN last
    BY <2>1 DEF BufferInv, TypeOK
  <2>3. ready => last.forced
    BY <1>2, <1>4, UpdateLenType DEF BufferInv, TypeOK, Pending
  <2>4. ~elapsed
    BY <1>1 DEF BufferInv
  <2>5. ~last.forced => Pending' <= UpdateLen
    BY <1>1, <1>2, <2>1, UpdateLenType DEF BufferInv, Pending
  <2>6. TypeOK'
    BY <1>1, <1>2, <2>1, <2>2 DEF BufferInv, TypeOK
  <2>7. last'.harm # "none" /\ (~ready => last'.harm # "overflow")
    BY <2>2
  <2> QED
    BY <1>1, <2>1, <2>2, <2>3, <2>4, <2>5, <2>6, <2>7 DEF BufferInv, ShownInv, SetupInv
<1> QED
  BY <1>3, <1>4

\* The sketch takes the byte that is under way longest.
LEMMA LoopInv ==
  ASSUME BufferInv, ShownInv, SetupInv, Loop
  PROVE  BufferInv' /\ ShownInv' /\ SetupInv'
<1>1. /\ rx # <<>> /\ ready' = ready /\ rx' = Tail(rx) /\ tx' = tx /\ elapsed' = elapsed /\ last' = last
      /\ lcd' = Received(lcd, Head(rx)) /\ lcd \in Lcd
      /\ tx \in Seq(STRING) /\ rx \in Seq(STRING) /\ IsText(last.text)
  BY DEF Loop, Received, BufferInv, TypeOK
<1>2. /\ Head(rx) \in STRING /\ rx' \in Seq(STRING) /\ Len(rx') = Len(rx) - 1 /\ Len(rx) \in Nat \ {0}
      /\ Head(rx) = rx[1] /\ \A i \in 1 .. Len(rx) - 1 : rx'[i] = rx[i + 1]
      /\ Len(tx) \in Nat
  BY <1>1
<1>3. Pending' = Pending - 1 /\ Pending \in Nat \ {0} /\ UpdateLen \in Nat /\ 0 < UpdateLen
  BY <1>1, <1>2, UpdateLenType DEF Pending
<1>4. Head(rx) = FromEnd(Pending)
  BY <1>2 DEF Pending, FromEnd
<1>5. ASSUME NEW i \in 1 .. Pending - 1
      PROVE  FromEnd(i)' = FromEnd(i)
  <2>1. CASE i <= Len(tx)
    BY <1>1, <2>1 DEF FromEnd
  <2>2. CASE ~(i <= Len(tx))
    <3>1. Len(rx') + Len(tx) + 1 - i \in 1 .. Len(rx) - 1
          /\ (Len(rx') + Len(tx) + 1 - i) + 1 = Len(rx) + Len(tx) + 1 - i
      BY <1>2, <2>2 DEF Pending
    <3> QED
      BY <1>1, <1>2, <2>2, <3>1 DEF FromEnd
  <2> QED
    BY <2>1, <2>2
<1>6. BufferInv'
  <2>1. lcd' \in Lcd
    BY <1>1, <1>2, ReceivedType
  <2>2. ~elapsed
    BY <1>1 DEF BufferInv
  <2> QED
    BY <1>1, <1>2, <1>3, <2>1, <2>2 DEF BufferInv, TypeOK
<1>7. ASSUME last'.harm = "none"
      PROVE  /\ \A i \in 1 .. UpdateLen : i <= Pending' =>
                  FromEnd(i)' = Written(last'.text)[UpdateLen + 1 - i]
             /\ Pending' < UpdateLen => Progress(lcd', Written(last'.text), UpdateLen - Pending')
  <2>1. /\ \A i \in 1 .. UpdateLen : i <= Pending => FromEnd(i) = Written(last.text)[UpdateLen + 1 - i]
        /\ Pending < UpdateLen => Progress(lcd, Written(last.text), UpdateLen - Pending)
    BY <1>1, <1>7 DEF ShownInv
  <2>2. \A i \in 1 .. UpdateLen : i <= Pending' =>
          FromEnd(i)' = Written(last'.text)[UpdateLen + 1 - i]
    BY <1>1, <1>3, <1>5, <2>1
  <2>3. ASSUME Pending' < UpdateLen
        PROVE  Progress(lcd', Written(last'.text), UpdateLen - Pending')
    <3> DEFINE k == UpdateLen - Pending
    <3>1. k \in Nat /\ UpdateLen - Pending' = k + 1 /\ UpdateLen + 1 - Pending = k + 1
          /\ Pending \in 1 .. UpdateLen /\ k < UpdateLen
      BY <1>3, <2>3
    <3>2. Head(rx) = Written(last.text)[k + 1]
      BY <1>3, <1>4, <2>1, <3>1
    <3>3. CASE k = 0
      <4>1. Progress(Received(lcd, Written(last.text)[1]), Written(last.text), 1)
        BY <1>1, FirstByte
      <4>2. k + 1 = 1
        BY <3>3
      <4> QED
        BY <1>1, <3>1, <3>2, <4>1, <4>2
    <3>4. CASE k # 0
      <4>1. k \in 1 .. UpdateLen - 1 /\ Pending < UpdateLen
        BY <1>3, <3>1, <3>4
      <4>2. Progress(lcd, Written(last.text), k)
        BY <2>1, <4>1
      <4> HIDE DEF k
      <4>3. Progress(Received(lcd, Written(last.text)[k + 1]), Written(last.text), k + 1)
        BY <1>1, <4>1, <4>2, NextByte
      <4> QED
        BY <1>1, <3>1, <3>2, <4>3
    <3> QED
      BY <3>3, <3>4
  <2> QED
    BY <2>2, <2>3
<1>8. SetupInv'
  BY <1>1 DEF SetupInv
<1> QED
  BY <1>6, <1>7, <1>8 DEF ShownInv

\* A reset empties the receive buffer and harms the last update.
LEMMA ResetInv ==
  ASSUME BufferInv, Reset
  PROVE  BufferInv' /\ ShownInv' /\ SetupInv'
<1>1. /\ rx' = <<>> /\ ready' = FALSE /\ UNCHANGED <<tx, lcd, elapsed>>
      /\ last' = [last EXCEPT !.harm = "reset"]
  BY DEF Reset
<1>2. last'.harm = "reset" /\ last'.forced = last.forced /\ last'.text = last.text
      /\ DOMAIN last' = DOMAIN last
  BY <1>1 DEF BufferInv, TypeOK
<1>3. Pending' <= Pending /\ Pending' \in Nat /\ Pending \in Nat
  BY <1>1 DEF Pending, BufferInv, TypeOK
<1>4. ~last.forced => Pending' <= UpdateLen
  BY <1>3, UpdateLenType DEF BufferInv
<1>5. TypeOK'
  <2>1. tx' \in Seq(STRING) /\ rx' \in Seq(STRING) /\ lcd' \in Lcd /\ elapsed' \in BOOLEAN
    BY <1>1 DEF BufferInv, TypeOK
  <2>2. ready' \in BOOLEAN
    BY <1>1
  <2>3. DOMAIN last' = {"text", "forced", "harm", "number"} /\ last'.forced \in BOOLEAN
    BY <1>2 DEF BufferInv, TypeOK
  <2>4. IsText(last'.text)
    BY <1>2 DEF BufferInv, TypeOK
  <2> QED
    BY <2>1, <2>2, <2>3, <2>4 DEF TypeOK
<1>6. BufferInv'
  BY <1>1, <1>2, <1>4, <1>5 DEF BufferInv
<1>7. ShownInv' /\ SetupInv'
  BY <1>1, <1>2 DEF ShownInv, SetupInv
<1> QED
  BY <1>6, <1>7

\* Setup clears the display: no byte of an unharmed update has been printed yet.
LEMMA SetupStepInv ==
  ASSUME BufferInv, ShownInv, SetupInv, Setup
  PROVE  BufferInv' /\ ShownInv' /\ SetupInv'
<1>1. ~ready /\ ready' = TRUE /\ lcd' = Fresh /\ UNCHANGED <<tx, rx, elapsed, last>>
  BY DEF Setup
<1>2. Pending' = Pending /\ \A i \in 1 .. UpdateLen : FromEnd(i)' = FromEnd(i)
  BY <1>1 DEF Pending, FromEnd
<1>3. last.harm = "none" => ~(Pending < UpdateLen)
  BY <1>1, UpdateLenType DEF SetupInv
<1> QED
  BY <1>1, <1>2, <1>3, FreshType DEF BufferInv, TypeOK, ShownInv, SetupInv

\* Every step keeps all three invariants.
LEMMA NextDisplayInv ==
  BufferInv /\ ShownInv /\ SetupInv /\ [Next]_vars => BufferInv' /\ ShownInv' /\ SetupInv'
<1> SUFFICES ASSUME BufferInv, ShownInv, SetupInv, [Next]_vars
             PROVE  BufferInv' /\ ShownInv' /\ SetupInv'
  OBVIOUS
<1>1. CASE Elapse
  BY <1>1 DEF Elapse, BufferInv, TypeOK, ShownInv, SetupInv, Pending, FromEnd
<1>2. CASE UNCHANGED vars
  BY <1>2 DEF vars, BufferInv, TypeOK, ShownInv, SetupInv, Pending, FromEnd
<1>3. CASE \E text \in Texts, force \in BOOLEAN : Update(text, force)
  BY <1>3, UpdateInv
<1>4. CASE Transmit
  BY <1>4, TransmitInv
<1>5. CASE Loop
  BY <1>5, LoopInv
<1>6. CASE Reset
  BY <1>6, ResetInv
<1>7. CASE Setup
  BY <1>7, SetupStepInv
<1> QED
  BY <1>1, <1>2, <1>3, <1>4, <1>5, <1>6, <1>7 DEF Next

-----------------------------------------------------------------------------
(* Theorems                                                                *)

\* For a display and a buffer of any size that hold an update, only forced
\* updates overflow the buffer, however the bytes of earlier ones were lost.
THEOREM OverflowAlwaysNeedsForce == Spec => []OverflowNeedsForce
<1>1. BufferInv /\ ShownInv => OverflowNeedsForce
  BY DEF BufferInv, OverflowNeedsForce
<1> QED
  BY <1>1, InitDisplayInv, NextDisplayInv, PTL DEF Spec

\* For any texts, any size of the display and any number of updates: an update
\* that has arrived whole is on the display, whatever earlier updates lost.
THEOREM WholeUpdateAlwaysShows == Spec => []WholeUpdateShows
<1>1. ASSUME BufferInv, ShownInv
      PROVE  WholeUpdateShows
  <2> SUFFICES ASSUME tx = <<>>, rx = <<>>, last.harm = "none"
               PROVE  Shows(0, last.text.line1) /\ Shows(1, last.text.line2)
    BY DEF WholeUpdateShows
  <2>1. Pending = 0 /\ UpdateLen - Pending = UpdateLen /\ Pending < UpdateLen
    BY UpdateLenType DEF Pending
  <2>2. Progress(lcd, Written(last.text), UpdateLen)
    BY <1>1, <2>1 DEF ShownInv
  <2>3. \A c \in 0 .. LCD_COLS - 1 : c + 1 < UpdateLen /\ c + LCD_COLS + 2 < UpdateLen
    BY DisplayAssumption DEF UpdateLen
  <2>4. \A c \in 0 .. LCD_COLS - 1 :
          /\ lcd.memory[0][c] = Written(last.text)[c + 2]
          /\ lcd.memory[1][c] = Written(last.text)[LCD_COLS + 3 + c]
    BY <2>2, <2>3 DEF Progress
  <2>5. IsText(last.text)
    BY <1>1 DEF BufferInv, TypeOK
  <2> QED
    BY <2>4, <2>5, WrittenBytes DEF Shows
<1> QED
  BY <1>1, InitDisplayInv, NextDisplayInv, PTL DEF Spec

=============================================================================
