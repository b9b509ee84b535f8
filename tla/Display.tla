------------------------------- MODULE Display -------------------------------
(***************************************************************************)
(* The LCD: Display of diode_receive writes two lines over a serial line,  *)
(* the sketch SerialMonitor.ino reads them into an HD44780 display.        *)
(* Nothing flows back; bytes that reach the Arduino while its receive      *)
(* buffer is full, or before its setup is over, are lost.                  *)
(***************************************************************************)
EXTENDS Naturals, Sequences

CONSTANTS
  LCD_COLS,     \* visible columns
  DDRAM_COLS,   \* columns of the display's memory; past the last, the other row
  RX_BUFFER,    \* bytes the Arduino buffers
  Texts,        \* the unformatted lines an update may show
  CR, NL, Blank, Booting, \* characters
  MaxUpdates    \* bound of the model: calls of update

\* The two lines are made of letters, digits, "%", "." and blanks.
IsText(text) ==
  /\ text.line1 \in Seq(STRING) /\ text.line2 \in Seq(STRING)
  /\ \A i \in 1 .. Len(text.line1) : text.line1[i] \notin {CR, NL}
  /\ \A i \in 1 .. Len(text.line2) : text.line2[i] \notin {CR, NL}

\* An update, two lines and two control characters, fits into the buffer (34
\* bytes into 64).
ASSUME DisplayAssumption ==
  /\ LCD_COLS \in Nat \ {0} /\ DDRAM_COLS \in Nat /\ DDRAM_COLS >= LCD_COLS
  /\ RX_BUFFER \in Nat /\ RX_BUFFER >= 2 * LCD_COLS + 2 /\ MaxUpdates \in Nat
  /\ {CR, NL, Blank, Booting} \subseteq STRING
  /\ CR # NL /\ Blank \notin {CR, NL}
  /\ \A text \in Texts : IsText(text)

VARIABLES
  tx,       \* bytes written and not yet transmitted
  rx,       \* the Arduino's receive buffer
  ready,    \* the sketch listens: bootloader and setup() are through
  lcd,      \* the display's memory, its cursor, and the sketch's variable line
  elapsed,  \* MIN_INTERVAL has passed since last_update
  last      \* history: the last update, was it forced, what harm came to it, its number

vars == <<tx, rx, ready, lcd, elapsed, last>>

-----------------------------------------------------------------------------
(* diode_receive                                                           *)

\* format "{:<16.16}".
Fitted(raw) == [i \in 1 .. LCD_COLS |-> IF i <= Len(raw) THEN raw[i] ELSE Blank]

\* The rows are only ever toggled.
Written_ToggleOnly(text) == Fitted(text.line1) \o <<NL>> \o Fitted(text.line2) \o <<NL>>

Written(text) == <<CR>> \o Fitted(text.line1) \o <<NL>> \o Fitted(text.line2)

\* What setup() leaves on the display.
Fresh ==
  [memory |-> [row \in 0 .. 1 |-> [col \in 0 .. DDRAM_COLS - 1 |->
                IF row = 0 /\ col < LCD_COLS THEN Booting ELSE Blank]],
   row |-> 0, col |-> 0, line |-> 0]

\* Display::new: opening the port resets the Arduino, which has two seconds for
\* its bootloader and setup; two blank lines follow.
\* The first call of update is main's and forced: that last_update starts out
\* MIN_INTERVAL ago plays no role.
Init ==
  /\ tx = Written([line1 |-> <<>>, line2 |-> <<>>])
  /\ rx = <<>>
  /\ ready = TRUE
  /\ lcd = Fresh
  /\ elapsed = FALSE
  /\ last = [text |-> [line1 |-> <<>>, line2 |-> <<>>], forced |-> TRUE, harm |-> "none",
             number |-> 0]

\* The interval is not looked at.
MayUpdate_AnyTime(force) == tx = <<>>

\* The port was flushed by the last update.
MayUpdate(force) == tx = <<>> /\ (force \/ elapsed)

Update(text, force) ==
  /\ last.number < MaxUpdates
  /\ MayUpdate(force)
  /\ tx' = Written(text)
  /\ elapsed' = FALSE
  /\ last' = [text |-> text, forced |-> force, harm |-> "none", number |-> last.number + 1]
  /\ UNCHANGED <<rx, ready, lcd>>

\* MIN_INTERVAL passes: at 500 characters a second the sketch is through with
\* a full buffer and an update by then.
Elapse ==
  /\ ~elapsed
  /\ tx = <<>> /\ rx = <<>>
  /\ elapsed' = TRUE
  /\ UNCHANGED <<tx, rx, ready, lcd, last>>

-----------------------------------------------------------------------------
(* The serial line                                                         *)

\* A byte arrives, or is lost: nobody listens yet, or the buffer is full.
Transmit ==
  /\ tx # <<>>
  /\ tx' = Tail(tx)
  /\ IF ready /\ Len(rx) < RX_BUFFER
     THEN rx' = Append(rx, Head(tx)) /\ UNCHANGED last
     ELSE /\ last' = [last EXCEPT !.harm = IF ready THEN "overflow" ELSE "reset"]
          /\ UNCHANGED rx
  /\ UNCHANGED <<ready, lcd, elapsed>>

-----------------------------------------------------------------------------
(* The sketch                                                              *)

CarriageReturn(l) == [l EXCEPT !.line = 0, !.row = 0, !.col = 0]

toggle_line(l) == [l EXCEPT !.line = 1 - @, !.row = 1 - l.line, !.col = 0]

\* lcd.print of one character (HD44780: the address counter moves on).
Printed(l, char) ==
  [l EXCEPT !.memory[l.row][l.col] = char,
            !.col = (l.col + 1) % DDRAM_COLS,
            !.row = IF l.col + 1 = DDRAM_COLS THEN 1 - l.row ELSE l.row]

Loop ==
  /\ rx # <<>>
  /\ rx' = Tail(rx)
  /\ lcd' = CASE Head(rx) = NL -> toggle_line(lcd)
              [] Head(rx) = CR -> CarriageReturn(lcd)
              [] OTHER -> Printed(lcd, Head(rx))
  /\ UNCHANGED <<tx, ready, elapsed, last>>

\* The Arduino is reset, by its power or its button: what it had buffered is
\* gone, and it is deaf until setup has opened its serial port again.
Reset ==
  /\ rx' = <<>>
  /\ ready' = FALSE
  /\ last' = [last EXCEPT !.harm = "reset"]
  /\ UNCHANGED <<tx, lcd, elapsed>>

Setup ==
  /\ ~ready
  /\ ready' = TRUE
  /\ lcd' = Fresh
  /\ UNCHANGED <<tx, rx, elapsed, last>>

Next ==
  \/ \E text \in Texts, force \in BOOLEAN : Update(text, force)
  \/ Elapse
  \/ Transmit
  \/ Loop
  \/ Reset
  \/ Setup

\* Serial line and sketch keep going.
Spec == Init /\ [][Next]_vars /\ WF_vars(Transmit) /\ WF_vars(Loop)

-----------------------------------------------------------------------------
(* Properties                                                              *)

Shows(row, raw) ==
  \A col \in 0 .. LCD_COLS - 1 :
    lcd.memory[row][col] = IF col < Len(raw) THEN raw[col + 1] ELSE Blank

\* Once an update has arrived whole the display shows it and nothing else,
\* whatever bytes earlier updates lost and wherever that left the cursor and
\* the row toggle (Display::MIN_INTERVAL speaks of a display that prints onto
\* the wrong row for the rest of the run).
WholeUpdateShows ==
  tx = <<>> /\ rx = <<>> /\ last.harm = "none" =>
    Shows(0, last.text.line1) /\ Shows(1, last.text.line2)

\* Only forced updates overflow the Arduino's buffer: one that waited for
\* MIN_INTERVAL finds it empty, whatever the forced ones before it did.
OverflowNeedsForce == last.harm = "overflow" => last.forced

\* An update that was not forced is on the display in the end, unless another
\* one follows, the Arduino is reset, or a byte of the update came before the
\* setup that follows a reset was over.
UnforcedShows ==
  \A n \in 1 .. MaxUpdates :
    (last.number = n /\ ~last.forced)
      ~> \/ Shows(0, last.text.line1) /\ Shows(1, last.text.line2)
         \/ last.number > n \/ last.harm = "reset"

=============================================================================
