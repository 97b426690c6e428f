-------------------------------- MODULE Grid --------------------------------
(***************************************************************************)
(* The terminal emulator of one pane (lumux-core grid/emulator.rs, row.rs, *)
(* scrollback.rs): the screen, the lines that scrolled off it, and the     *)
(* primary screen that is put aside while an application uses the          *)
(* alternate one.                                                          *)
(*                                                                         *)
(* A row is as much as a mark of what is written in it; columns, widths,   *)
(* attributes, tab stops and replies to queries are left out, so printing  *)
(* wraps to the next row whenever it likes.  Rows count from 1.  An index  *)
(* outside the screen would be a panic, which ends the server and every    *)
(* session in it.                                                          *)
(***************************************************************************)
EXTENDS Naturals, SequencesExt

CONSTANTS
  Marks,      \* what may be written in a row
  Blank,      \* nothing
  Capacity,   \* of the history, in lines
  MaxHeight   \* bound: of the screen

ASSUME GridAssumption == Capacity \in Nat /\ MaxHeight \in Nat

VARIABLES
  height,
  rows,
  scrollback,
  cursor_y,
  saved_cursor,              \* 0: none
  scroll_top, scroll_bottom, \* the scroll region
  primary                    \* what is put aside, if anything: at most one

gridVars == <<height, rows, scrollback, cursor_y, saved_cursor, scroll_top, scroll_bottom, primary>>

ScreenRows == 1 .. MaxHeight
Blanks(n) == [i \in 1..n |-> Blank]
Lower(a, b) == IF a < b THEN a ELSE b
Minus(a, b) == IF a > b THEN a - b ELSE 0   \* saturating_sub
Row(y) == IF y < 1 THEN 1 ELSE y
From(s, i) == SubSeq(s, i, Len(s))

\* Scrollback::push, for each of lines in turn.
Pushed(lines) == LET all == scrollback \o lines IN From(all, Minus(Len(all), Capacity) + 1)

OnAlternate == primary # << >>
FullRegion == scroll_top = 1 /\ scroll_bottom = height

-----------------------------------------------------------------------------
GridInit ==
  /\ height \in ScreenRows
  /\ rows = Blanks(height) /\ scrollback = << >>
  /\ cursor_y = 1 /\ saved_cursor = 0
  /\ scroll_top = 1 /\ scroll_bottom = height
  /\ primary = << >>

\* rows after lines top .. bottom move up or down by n.
Upward(n) ==
  SubSeq(rows, 1, scroll_top - 1) \o SubSeq(rows, scroll_top + n, scroll_bottom)
    \o Blanks(n) \o From(rows, scroll_bottom + 1)

Downward(n) ==
  SubSeq(rows, 1, scroll_top - 1) \o Blanks(n)
    \o SubSeq(rows, scroll_top, scroll_bottom - n) \o From(rows, scroll_bottom + 1)

\* Seeded fault: lines that scroll off the top of a region go to the history.
ScrollsToHistoryAtTop == scroll_top = 1 /\ ~ OnAlternate

\* Only the whole primary screen scrolls into the history.
ScrollsToHistory == FullRegion /\ ~ OnAlternate

ScrolledOff(n) == IF ScrollsToHistory THEN Pushed(SubSeq(rows, 1, n)) ELSE scrollback

InRegion(n) == Lower(n, scroll_bottom + 1 - scroll_top)

ScrollUp(n) ==
  /\ rows' = Upward(InRegion(n))
  /\ scrollback' = ScrolledOff(InRegion(n))
  /\ UNCHANGED <<height, cursor_y, saved_cursor, scroll_top, scroll_bottom, primary>>

ScrollDown(n) ==
  /\ rows' = Downward(InRegion(n))
  /\ UNCHANGED <<height, scrollback, cursor_y, saved_cursor, scroll_top, scroll_bottom, primary>>

\* line_feed: one row down, or the region up; below the region the cursor
\* stops at the last row.
NextRow == IF cursor_y # scroll_bottom THEN Lower(cursor_y + 1, height) ELSE cursor_y
FedRows == IF cursor_y = scroll_bottom THEN Upward(1) ELSE rows
FedHistory == IF cursor_y = scroll_bottom THEN ScrolledOff(1) ELSE scrollback

LineFeed ==
  /\ cursor_y' = NextRow /\ rows' = FedRows /\ scrollback' = FedHistory
  /\ UNCHANGED <<height, saved_cursor, scroll_top, scroll_bottom, primary>>

\* print_char, which may have to wrap first.
PrintChar(mark) ==
  /\ \/ /\ rows' = [rows EXCEPT ![cursor_y] = mark]
        /\ UNCHANGED <<cursor_y, scrollback>>
     \/ /\ cursor_y' = NextRow /\ scrollback' = FedHistory
        /\ rows' = [FedRows EXCEPT ![NextRow] = mark]
  /\ UNCHANGED <<height, saved_cursor, scroll_top, scroll_bottom, primary>>

\* cursor_csi, the moves: however far, clamped to the screen.
MoveCursor(y) ==
  /\ cursor_y' = Lower(y, height)
  /\ UNCHANGED <<height, rows, scrollback, saved_cursor, scroll_top, scroll_bottom, primary>>

SaveCursor ==
  /\ saved_cursor' = cursor_y
  /\ UNCHANGED <<height, rows, scrollback, cursor_y, scroll_top, scroll_bottom, primary>>

\* The screen may have shrunk since.
RestoreCursor ==
  /\ saved_cursor # 0
  /\ cursor_y' = Lower(saved_cursor, height)
  /\ UNCHANGED <<height, rows, scrollback, saved_cursor, scroll_top, scroll_bottom, primary>>

\* DECSTBM; a region that is not one is the whole screen.
SetRegion(t, b) ==
  /\ IF Lower(t, height) < Lower(b, height)
     THEN scroll_top' = Lower(t, height) /\ scroll_bottom' = Lower(b, height)
     ELSE scroll_top' = 1 /\ scroll_bottom' = height
  /\ cursor_y' = scroll_top'
  /\ UNCHANGED <<height, rows, scrollback, saved_cursor, primary>>

\* edit_csi: whole lines at the cursor, whatever the region.
InsertLines(n) ==
  LET k == Lower(n, height + 1 - cursor_y)
  IN  /\ rows' = SubSeq(rows, 1, cursor_y - 1) \o Blanks(k) \o SubSeq(rows, cursor_y, height - k)
      /\ UNCHANGED <<height, scrollback, cursor_y, saved_cursor, scroll_top, scroll_bottom, primary>>

DeleteLines(n) ==
  LET k == Lower(n, height + 1 - cursor_y)
  IN  /\ rows' = SubSeq(rows, 1, cursor_y - 1) \o From(rows, cursor_y + k) \o Blanks(k)
      /\ UNCHANGED <<height, scrollback, cursor_y, saved_cursor, scroll_top, scroll_bottom, primary>>

\* erase_in_display: all of it, or to the end or the start, where some of the
\* cursor's row may be left.
EraseInDisplay ==
  /\ \/ rows' = Blanks(height)
     \/ \E erased \in {cursor_y .. height, 1 .. cursor_y}, left \in {Blank, rows[cursor_y]} :
          rows' = [y \in 1 .. height |->
                     IF y = cursor_y THEN left ELSE IF y \in erased THEN Blank ELSE rows[y]]
  /\ UNCHANGED <<height, scrollback, cursor_y, saved_cursor, scroll_top, scroll_bottom, primary>>

EraseScrollback ==
  /\ scrollback' = << >>
  /\ UNCHANGED <<height, rows, cursor_y, saved_cursor, scroll_top, scroll_bottom, primary>>

EnterAltScreen ==
  /\ ~ OnAlternate
  /\ primary' = <<[rows |-> rows, cursor_y |-> cursor_y, saved_cursor |-> saved_cursor]>>
  /\ rows' = Blanks(height) /\ cursor_y' = 1
  /\ scroll_top' = 1 /\ scroll_bottom' = height
  /\ UNCHANGED <<height, scrollback, saved_cursor>>

LeaveAltScreen ==
  /\ OnAlternate
  /\ rows' = Head(primary).rows
  /\ cursor_y' = Lower(Head(primary).cursor_y, height)
  /\ saved_cursor' = Head(primary).saved_cursor
  /\ scroll_top' = 1 /\ scroll_bottom' = height
  /\ primary' = << >>
  /\ UNCHANGED <<height, scrollback>>

\* Rows of a screen of height h after a resize to height k: the topmost go, or
\* blank ones are added below.
Refitted(s, k) == IF k < Len(s) THEN From(s, Len(s) - k + 1) ELSE s \o Blanks(k - Len(s))

RefittedAside(p, k) ==
  [rows         |-> Refitted(p.rows, k),
   cursor_y     |-> Lower(Row(Minus(p.cursor_y, Minus(Len(p.rows), k))), k),
   saved_cursor |-> p.saved_cursor]

\* Seeded fault: the screen put aside keeps its height.
ResizeFrontOnly(k) ==
  /\ rows' = Refitted(rows, k)
  /\ scrollback' = IF OnAlternate THEN scrollback ELSE Pushed(SubSeq(rows, 1, Minus(height, k)))
  /\ cursor_y' = Lower(Row(Minus(cursor_y, Minus(height, k))), k)
  /\ height' = k
  /\ scroll_top' = 1 /\ scroll_bottom' = k
  /\ UNCHANGED <<saved_cursor, primary>>

\* resize.  The topmost rows of the primary screen go to the history, except
\* those of one that is put aside, which are lost.
Resize(k) ==
  /\ rows' = Refitted(rows, k)
  /\ scrollback' = IF OnAlternate THEN scrollback ELSE Pushed(SubSeq(rows, 1, Minus(height, k)))
  /\ cursor_y' = Lower(Row(Minus(cursor_y, Minus(height, k))), k)
  /\ height' = k
  /\ scroll_top' = 1 /\ scroll_bottom' = k
  /\ primary' = [i \in DOMAIN primary |-> RefittedAside(primary[i], k)]
  /\ UNCHANGED saved_cursor

GridNext ==
  \/ LineFeed \/ SaveCursor \/ RestoreCursor
  \/ EraseInDisplay \/ EraseScrollback
  \/ EnterAltScreen \/ LeaveAltScreen
  \/ \E mark \in Marks : PrintChar(mark)
  \/ \E k \in ScreenRows : Resize(k) \/ MoveCursor(k)
  \/ \E n \in ScreenRows : ScrollUp(n) \/ ScrollDown(n) \/ InsertLines(n) \/ DeleteLines(n)
  \/ \E t, b \in ScreenRows : SetRegion(t, b)

GridSpec == GridInit /\ [][GridNext]_gridVars

-----------------------------------------------------------------------------
(* Properties                                                              *)

\* Whatever an application writes, and however the pane is resized meanwhile:
\* both screens have as many rows as the pane, and the cursor and the scroll
\* region lie on the screen, so that no row is looked for where there is none.
ScreenFits ==
  /\ Len(rows) = height
  /\ \A i \in DOMAIN primary : Len(primary[i].rows) = height
  /\ cursor_y \in 1 .. height
  /\ 1 <= scroll_top /\ scroll_top <= scroll_bottom /\ scroll_bottom <= height

\* The history followed by the screen is one text.  What goes to the history
\* are the topmost lines of the primary screen, in their order, and the lines
\* that were below them are then on top of the screen; what leaves the history
\* is the oldest.  No alternate screen and no partial region gets into it.
HistoryContinuesInScreen ==
  [][scrollback' \notin {scrollback, << >>} =>
       \E k \in 1 .. height :
         /\ scrollback' = Pushed(SubSeq(rows, 1, k))
         /\ primary = << >> /\ IsPrefix(From(rows, k + 1), rows')]_gridVars
=============================================================================
