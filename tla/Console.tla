------------------------------- MODULE Console -------------------------------
(***************************************************************************)
(* The text console of src/core/console.c: the scrollback buffer, the part *)
(* of it that is on the screen, the text cursor and the blinking input     *)
(* cursor, and the escape sequences.                                       *)
(*                                                                         *)
(* The ring of SCROLLBACK_LINES lines is a sequence here, oldest line      *)
(* first.  A cell of the screen has a character and is inverted or not;    *)
(* colours, fonts, scaling and the number of displays are left out.  The   *)
(* characters of a write are handled with interrupts off, so a write is    *)
(* one step; it may hold a part of an escape sequence.                     *)
(***************************************************************************)
EXTENDS Integers, Sequences, FiniteSets

CONSTANTS
  Cols, Rows,   \* g_cols, g_rows
  MaxLines,     \* SCROLLBACK_LINES
  TabWidth,     \* 8
  WordRange,    \* 2^32: where numbers wrap
  MaxParams,    \* 8, the size of ansi_params
  Writes,       \* what is written: sequences of characters
  InputLines    \* arguments of console_input: [prefix, text, pos, show]

VARIABLES
  con           \* the state of console.c and the screen

conVars == <<con>>

ASSUME ConsoleAssumption == Rows \in 1..MaxLines /\ Cols >= 1 /\ TabWidth >= 1

Least(a, b) == IF a < b THEN a ELSE b

Blank == " "
BlankLine == [c \in 1..Cols |-> Blank]
Digits == <<"1", "2", "3", "4", "5", "6", "7", "8", "9">>

-----------------------------------------------------------------------------
(* The view.  Lines and columns count from 0, as in the code; lines[n + 1] *)
(* is line n.                                                              *)

LineCount(S) == Len(S.lines)
MaxView(S) == IF LineCount(S) <= Rows THEN 0 ELSE LineCount(S) - Rows
\* view_start_line
Start(S) ==
  IF LineCount(S) <= Rows THEN 0 ELSE LineCount(S) - Rows - Least(S.view, MaxView(S))

InView(S, line) == line >= Start(S) /\ line < Start(S) + Rows

Cells == (0..(Rows - 1)) \X (0..(Cols - 1))

ShownFrom(S, first, r, c) ==
  [ch |-> IF first + r < LineCount(S) THEN S.lines[first + r + 1][c + 1] ELSE Blank, inv |-> FALSE]
Shown(S, r, c) == ShownFrom(S, Start(S), r, c)

ScreenFrom(S, first) == [x \in Cells |-> ShownFrom(S, first, x[1], x[2])]

RenderVisible(S) == [S EXCEPT !.screen = ScreenFrom(S, Start(S))]

\* render_line_if_visible, render_line_to_row
RenderLine(S, line) ==
  [S EXCEPT !.screen = [x \in Cells |->
                          IF Start(S) + x[1] = line THEN Shown(S, x[1], x[2]) ELSE @[x]]]

\* ensure_line_exists: a full buffer loses its oldest line, and the two text
\* cursors move with their lines.
ScrolledOne(S) ==
  IF LineCount(S) < MaxLines THEN [S EXCEPT !.lines = Append(@, BlankLine)]
  ELSE [S EXCEPT !.lines = Append(Tail(@), BlankLine),
                 !.cur.line = IF @ > 0 THEN @ - 1 ELSE 0,
                 !.saved.line = IF @ > 0 THEN @ - 1 ELSE 0]

EnsureLine(S, line) ==
  LET n == IF line < LineCount(S) THEN 0 ELSE line - LineCount(S) + 1
      E[i \in 0..n] == IF i = 0 THEN S ELSE ScrolledOne(E[i - 1])
  IN E[n]

\* blank_cell, for the cells of a set
BlankCells(S, cells) ==
  [S EXCEPT !.lines = [n \in 1..Len(@) |->
                         [c \in 1..Cols |-> IF <<n - 1, c - 1>> \in cells THEN Blank ELSE @[n][c]]]]

-----------------------------------------------------------------------------
(* The input cursor.                                                       *)

\* redraw_input_cursor_cell
RedrawCursor(S, inverted) ==
  IF ~S.inp.on \/ S.inp.col >= Cols \/ ~InView(S, S.inp.line) THEN S
  ELSE [S EXCEPT !.screen[<<S.inp.line - Start(S), S.inp.col>>] =
                    [ch |-> S.lines[S.inp.line + 1][S.inp.col + 1], inv |-> inverted]]

HideCursor(S) ==
  IF S.inp.vis THEN [RedrawCursor(S, FALSE) EXCEPT !.inp.vis = FALSE] ELSE S

ShowCursor(S) == [RedrawCursor(S, TRUE) EXCEPT !.inp.vis = TRUE]

CursorAt(S, on) ==
  [S EXCEPT !.inp = [@ EXCEPT !.on = on, !.line = S.cur.line, !.col = S.cur.col]]

\* console_cursor_set_enabled
SetCursorEnabled(S, on) ==
  IF on THEN ShowCursor(CursorAt(HideCursor(S), on)) ELSE CursorAt(HideCursor(S), on)

\* console_cursor_sync_to_text_cursor
SyncCursor(S) == IF ~S.inp.on THEN S ELSE ShowCursor(CursorAt(HideCursor(S), TRUE))

-----------------------------------------------------------------------------
(* Output.                                                                 *)

NormalState == [st |-> "normal", params |-> <<0>>, priv |-> FALSE]

\* reset_scrollback, clear_outputs, render_visible
ClearedConsole(S) ==
  RenderVisible([S EXCEPT !.ansi = NormalState, !.lines = <<BlankLine>>, !.view = 0,
                          !.cur = [line |-> 0, col |-> 0], !.saved = [line |-> 0, col |-> 0],
                          !.inp = [on |-> FALSE, vis |-> FALSE, line |-> 0, col |-> 0]])

RenderUnlessBack(S) == IF S.view = 0 THEN RenderVisible(S) ELSE S

AtLastLine(S) ==
  [S EXCEPT !.cur = [line |-> LineCount(S) - 1, col |-> 0]]

NewLineUnrendered(S) ==
  IF S.cur.line + 1 < LineCount(S)
  THEN RenderUnlessBack([S EXCEPT !.cur = [line |-> @.line + 1, col |-> 0]])
  ELSE AtLastLine(EnsureLine(S, LineCount(S)))

\* new_line
NewLine(S) ==
  IF S.cur.line + 1 < LineCount(S)
  THEN RenderUnlessBack([S EXCEPT !.cur = [line |-> @.line + 1, col |-> 0]])
  ELSE RenderUnlessBack(AtLastLine(EnsureLine(S, LineCount(S))))

\* Draw the cell of the buffer under the text cursor.
DrawCell(S, line, col) ==
  IF ~InView(S, line) THEN S
  ELSE [S EXCEPT !.screen[<<line - Start(S), col>>] = [ch |-> S.lines[line + 1][col + 1], inv |-> FALSE]]

Wrapped(S) == IF S.cur.col >= Cols THEN NewLine(S) ELSE S

PrintAt(S, ch) ==
  [DrawCell([S EXCEPT !.lines[S.cur.line + 1][S.cur.col + 1] = ch], S.cur.line, S.cur.col)
     EXCEPT !.cur.col = @ + 1]

\* The end of putc_fb: a character that is printed.
PrintChar(S, ch) == PrintAt(EnsureLine(Wrapped(S), Wrapped(S).cur.line), ch)

Backspace(S) ==
  IF S.cur.col = 0 THEN S
  ELSE RenderLine([S EXCEPT !.cur.col = @ - 1, !.lines[S.cur.line + 1][S.cur.col] = Blank],
                  S.cur.line)

\* A tab prints blanks until the column is the next multiple of TabWidth.  When
\* that lies beyond the last column, the column never gets there and the loop
\* does not end.
NextTab(col) == ((col + TabWidth) \div TabWidth) * TabWidth
Tab(S) ==
  LET n == NextTab(S.cur.col) - S.cur.col
      P[i \in 0..n] == IF i = 0 THEN S ELSE PrintChar(P[i - 1], Blank)
  IN IF NextTab(S.cur.col) > Cols THEN [S EXCEPT !.stuck = TRUE] ELSE P[n]

-----------------------------------------------------------------------------
(* Escape sequences.                                                       *)

ParamOr(S, i, fallback) ==
  IF i > Len(S.ansi.params) \/ S.ansi.params[i] = 0 THEN fallback ELSE S.ansi.params[i]

\* ansi_set_cursor; row and col count from 1.
Clamp(n, max) == IF n = 0 THEN 1 ELSE Least(n, max)
MovedTo(S, line, col) ==
  SyncCursor([EnsureLine(S, line) EXCEPT !.cur = [line |-> line, col |-> col]])
SetCursor(S, row, col) ==
  MovedTo(S, Start(S) + Clamp(row, Rows) - 1, Clamp(col, Cols) - 1)

\* ansi_move_cursor: sums wrap at 2^32 before they are compared.
Down(S, n) == Least((S.cur.line + n) % WordRange, Start(S) + Rows - 1)
Up(S, n) ==
  LET line == IF n > S.cur.line THEN 0 ELSE S.cur.line - n
  IN IF line < Start(S) THEN Start(S) ELSE line
Right(S, n) == Least((S.cur.col + n) % WordRange, Cols - 1)
Left(S, n) == IF n > S.cur.col THEN 0 ELSE S.cur.col - n

MoveCursor(S, final, n) ==
  SyncCursor(
    CASE final = "A" -> [S EXCEPT !.cur.line = Up(S, n)]
      [] final = "B" -> EnsureLine([S EXCEPT !.cur.line = Down(S, n)], Down(S, n))
      [] final = "C" -> [S EXCEPT !.cur.col = Right(S, n)]
      [] final = "D" -> [S EXCEPT !.cur.col = Left(S, n)])

\* ansi_erase_line
EraseLine(S, mode) ==
  RenderLine(BlankCells(S, {<<S.cur.line, c>> : c \in
                 IF mode = 2 THEN 0..(Cols - 1)
                 ELSE IF mode = 1 THEN 0..S.cur.col ELSE S.cur.col..(Cols - 1)}), S.cur.line)

\* ansi_erase_display
Before(x, y) == x[1] < y[1] \/ (x[1] = y[1] /\ x[2] < y[2])
EraseView(S, first, mode) ==
  LET here == <<S.cur.line, S.cur.col>>
  IN RenderVisible(BlankCells(S, {x \in (first..(first + Rows - 1)) \X (0..(Cols - 1)) :
                                    IF mode = 1 THEN ~Before(here, x) ELSE ~Before(x, here)}))
EraseDisplay(S, mode) ==
  IF mode \in {2, 3} THEN ClearedConsole(S)
  ELSE EraseView(EnsureLine(S, Start(S) + Rows - 1), Start(S), mode)

SaveCursor(S) == [S EXCEPT !.saved = S.cur]
RestoreCursor(S) ==
  LET T == EnsureLine(S, S.saved.line)
  IN [T EXCEPT !.cur = [line |-> T.saved.line, col |-> Least(T.saved.col, Cols - 1)]]

PrivateMode(S, final) ==
  IF final \in {"h", "l"} /\ \E i \in 1..Len(S.ansi.params) : S.ansi.params[i] = 25
  THEN SetCursorEnabled(S, final = "h") ELSE S

\* ansi_handle_csi; colours ("m") are left out.
HandleCsi(S, final) ==
  IF S.ansi.priv THEN PrivateMode(S, final)
  ELSE CASE final \in {"H", "f"} -> SetCursor(S, ParamOr(S, 1, 1), ParamOr(S, 2, 1))
         [] final \in {"A", "B", "C", "D"} -> MoveCursor(S, final, ParamOr(S, 1, 1))
         [] final = "G" -> SetCursor(S, (S.cur.line - Start(S) + 1) % WordRange, ParamOr(S, 1, 1))
         [] final = "J" -> EraseDisplay(S, ParamOr(S, 1, 0))
         [] final = "K" -> EraseLine(S, ParamOr(S, 1, 0))
         [] final = "s" -> SaveCursor(S)
         [] final = "u" -> RestoreCursor(S)
         [] OTHER -> S

ToNormal(S) == [S EXCEPT !.ansi = NormalState]

AfterEsc(S, ch) ==
  IF ch = "[" THEN [S EXCEPT !.ansi.st = "csi", !.ansi.params = <<0>>]
  ELSE ToNormal(CASE ch = "7" -> SaveCursor(S)
                  [] ch = "8" -> RestoreCursor(S)
                  [] ch = "c" -> ClearedConsole(S)
                  [] OTHER -> S)

DigitOf(ch) == IF ch = "0" THEN 0 ELSE CHOOSE d \in 1..9 : Digits[d] = ch

InCsi(S, ch) ==
  LET k == Len(S.ansi.params)
  IN CASE ch = "0" \/ \E d \in 1..9 : Digits[d] = ch ->
            [S EXCEPT !.ansi.params[k] = (@ * 10 + DigitOf(ch)) % WordRange]
       [] ch = "?" -> [S EXCEPT !.ansi.priv = TRUE]
       [] ch = ";" -> IF k < MaxParams THEN [S EXCEPT !.ansi.params = Append(@, 0)] ELSE S
       [] OTHER -> ToNormal(HandleCsi(S, ch))

\* putc_fb
Putc(S, ch) ==
  IF S.stuck THEN S
  ELSE CASE S.ansi.st = "esc" -> AfterEsc(S, ch)
         [] S.ansi.st = "csi" -> InCsi(S, ch)
         [] ch = "ESC" -> [S EXCEPT !.ansi.st = "esc"]
         [] ch = "NL" -> NewLine(S)
         [] ch = "CR" -> [S EXCEPT !.cur.col = 0]
         [] ch = "TAB" -> Tab(S)
         [] ch = "BS" -> Backspace(S)
         [] OTHER -> PrintChar(S, ch)

PutAll(S, chars) ==
  LET P[i \in 0..Len(chars)] == IF i = 0 THEN S ELSE Putc(P[i - 1], chars[i]) IN P[Len(chars)]

-----------------------------------------------------------------------------
(* Operations.                                                             *)

\* print, and the console part of sys_write
Output(w) == ~con.stuck /\ \E S \in {PutAll(con, w)} : con' = S

PageStep == IF Rows > 1 THEN Rows - 1 ELSE 1

PageUp ==
  /\ ~con.stuck /\ MaxView(con) > 0
  /\ con' = RenderVisible([con EXCEPT !.view = Least(@ + PageStep, MaxView(con))])

PageDown ==
  /\ ~con.stuck /\ con.view > 0
  /\ con' = RenderVisible([con EXCEPT !.view = IF PageStep > @ THEN 0 ELSE @ - PageStep])

\* console_timer_tick, when the cursor is due to blink
Blink ==
  /\ con.inp.on
  /\ con' = RedrawCursor([con EXCEPT !.inp.vis = ~@], ~con.inp.vis)

\* console_set_input_line
InputText(l) == SubSeq(l.prefix \o l.text, 1, Least(Cols, Len(l.prefix \o l.text)))
InputRow(l) == [c \in 1..Cols |-> IF c <= Len(InputText(l)) THEN InputText(l)[c] ELSE Blank]
InputColumn(l) == Least(Cols, Len(l.prefix)) + Least(l.pos, Len(l.text))

WithInput(S, l) ==
  [S EXCEPT !.lines[Len(S.lines)] = InputRow(l),
            !.cur = [line |-> LineCount(S) - 1, col |-> Len(InputText(l))],
            !.inp = [@ EXCEPT !.on = l.show /\ InputColumn(l) < Cols, !.line = LineCount(S) - 1,
                              !.col = InputColumn(l)]]

ShowInput(S) ==
  IF ~InView(S, S.inp.line) THEN S
  ELSE IF S.inp.on THEN ShowCursor(RenderLine(S, S.inp.line)) ELSE RenderLine(S, S.inp.line)

SetInputLine(l) == ~con.stuck /\ con' = ShowInput(WithInput(HideCursor(con), l))

\* console_clear
Clear == ~con.stuck /\ con' = ClearedConsole(con)

-----------------------------------------------------------------------------
ConInit ==
  con = [lines |-> <<BlankLine>>, view |-> 0, cur |-> [line |-> 0, col |-> 0],
         saved |-> [line |-> 0, col |-> 0],
         inp |-> [on |-> FALSE, vis |-> FALSE, line |-> 0, col |-> 0],
         screen |-> [x \in Cells |-> [ch |-> Blank, inv |-> FALSE]],
         ansi |-> NormalState, stuck |-> FALSE]

ConNext ==
  \/ \E w \in Writes : Output(w)
  \/ PageUp \/ PageDown \/ Blink \/ Clear
  \/ \E l \in InputLines : SetInputLine(l)

-----------------------------------------------------------------------------
(* Properties.                                                             *)

ConTypeOK ==
  /\ LineCount(con) \in 1..MaxLines
  /\ \A n \in 1..LineCount(con) : DOMAIN con.lines[n] = 1..Cols
  /\ con.view \in 0..MaxView(con)
  /\ DOMAIN con.screen = Cells

\* The text cursor and the saved one are always inside the buffer, whatever the
\* numbers in the escape sequences (they may wrap), however much has scrolled
\* since the position was saved: putc_fb writes through them unchecked.
CursorInside ==
  /\ con.cur.line < LineCount(con) /\ con.cur.col \in 0..Cols
  /\ con.saved.line < LineCount(con) /\ con.saved.col \in 0..Cols

\* When the view is not scrolled back, the screen shows the end of the buffer:
\* every path that changes a cell, adds a line or scrolls has repainted what it
\* changed.  (While the view is scrolled back, new lines are not painted.)
ScreenCurrent ==
  con.view = 0 => \A x \in Cells : con.screen[x].ch = Shown(con, x[1], x[2]).ch

\* The input cursor leaves no trace: when the view is not scrolled back, a cell
\* that is shown inverted is the one under the visible input cursor.
OneCursor ==
  con.view = 0 =>
    \A x \in Cells : con.screen[x].inv =>
      /\ con.inp.on /\ con.inp.vis
      /\ x = <<con.inp.line - Start(con), con.inp.col>>

\* The screen shows the scrollback buffer, and the cursor is inside it.
ScreenSound == ConTypeOK /\ CursorInside /\ ScreenCurrent /\ OneCursor
=============================================================================
