------------------------------ MODULE CopyMode ------------------------------
(***************************************************************************)
(* Copy mode of one client on one pane (lumux-core copymode.rs, and the    *)
(* handlers of daemon.rs and eventloop.rs that drive it by key and mouse), *)
(* over a terminal that goes on working: output moves lines into the       *)
(* history, the history is erased, the pane is resized, its application    *)
(* switches screens, and the focus goes elsewhere.                         *)
(*                                                                         *)
(* Of the terminal (module Grid) only its lines' lengths are kept, so a    *)
(* search or a word motion may stop anywhere in its direction.  Rows and   *)
(* columns count from 0, rows from the oldest line of the history.         *)
(***************************************************************************)
EXTENDS Naturals, Sequences

CONSTANTS
  NoAnchor,   \* no selection
  Width,      \* bound: the columns of the pane
  MaxLines,   \* bound: its lines
  MaxHistory  \* capacity of the history

\* A selection has an anchor, or none.
ASSUME CopyAssumption ==
  /\ Width \in Nat /\ MaxLines \in Nat /\ MaxHistory \in Nat
  /\ NoAnchor \notin [row : Nat, col : Nat]

VARIABLES
  \* the pane
  historyCells,   \* the length of each line in the history
  lines, width,   \* the size of the screen
  onAlternate,    \* its application uses the alternate screen
  focused,        \* it is the active pane of the client's session
  \* the client
  copying, mode,  \* Daemon::copy
  searching,      \* Daemon::search
  mouseSel,       \* Daemon::mouse_sel: "none", "armed", "dragging"
  shrunk          \* history: lines were lost while the mode was on

buffer == <<historyCells, lines, width>>
pane == <<buffer, onAlternate, focused>>
copy == <<copying, mode, searching, mouseSel>>
copyVars == <<pane, copy, shrunk>>

-----------------------------------------------------------------------------
LowerOf(a, b) == IF a < b THEN a ELSE b
HigherOf(a, b) == IF a < b THEN b ELSE a
Less(a, b) == IF a > b THEN a - b ELSE 0   \* saturating_sub

history == Len(historyCells)

\* Grid::combined_len.
Combined == history + lines
MaxRow == Combined - 1

\* A line keeps its length in the history; those on the screen are resized.
LengthOf(r) == IF r < history THEN historyCells[r + 1] ELSE width

Pos(r, c) == [row |-> r, col |-> c]
Before(p, q) == p.row < q.row \/ (p.row = q.row /\ p.col < q.col)

Entered == [top |-> Less(Combined, lines), cursor |-> Pos(Less(Combined, lines), 0),
            anchor |-> NoAnchor, height |-> lines, rectangle |-> FALSE]
NoMode == [top |-> 0, cursor |-> Pos(0, 0), anchor |-> NoAnchor, height |-> 1, rectangle |-> FALSE]

TargetIsActive == copying /\ focused /\ ~ onAlternate

CopyInit ==
  /\ historyCells = << >> /\ lines \in 1 .. MaxLines /\ width = Width
  /\ onAlternate = FALSE /\ focused = TRUE
  /\ copying = FALSE /\ mode = NoMode /\ searching = FALSE /\ mouseSel = "none"
  /\ shrunk = FALSE

-----------------------------------------------------------------------------
(* CopyMode                                                                *)

\* Seeded fault: the row below the view counts as one of it.
ScrollToCursorLate(m) ==
  LET top == IF m.cursor.row < m.top THEN m.cursor.row
             ELSE IF m.cursor.row > m.top + m.height THEN m.cursor.row + 1 - m.height
             ELSE m.top
  IN  [m EXCEPT !.top = LowerOf(top, Less(Combined, m.height))]

\* The view follows the cursor, and ends where the buffer ends.
ScrollToCursor(m) ==
  LET top == IF m.cursor.row < m.top THEN m.cursor.row
             ELSE IF m.cursor.row >= m.top + m.height THEN m.cursor.row + 1 - m.height
             ELSE m.top
  IN  [m EXCEPT !.top = LowerOf(top, Less(Combined, m.height))]

MovedTo(m, p) == ScrollToCursor([m EXCEPT !.cursor = p])

\* The position goes no further than the last row, whatever the column.
SetCursor(m, p) == MovedTo(m, Pos(LowerOf(p.row, MaxRow), p.col))

StartSelection(m) == [m EXCEPT !.anchor = m.cursor]

ToggleRectangle(m) ==
  [m EXCEPT !.rectangle = ~ @, !.anchor = IF @ = NoAnchor THEN m.cursor ELSE @]

\* navigate: the keys that move by rows, in the row, and by words.
RowMoves(m) ==
  {Less(m.cursor.row, d) : d \in {1, m.height, m.height \div 2}}
    \cup {LowerOf(m.cursor.row + d, MaxRow) : d \in {1, m.height, m.height \div 2}}

\* The cursor may go right for ever (bound: one column past the widest pane).
ColumnMoves(m) ==
  {Less(m.cursor.col, 1), LowerOf(m.cursor.col + 1, Width)}
    \cup 0 .. LengthOf(m.cursor.row)

WordMoves ==
  {p \in [row : 0 .. MaxRow, col : 0 .. Width] : p.col <= LengthOf(p.row)}

Moves(m) ==
  {Pos(r, m.cursor.col) : r \in RowMoves(m)}
    \cup {Pos(m.cursor.row, c) : c \in ColumnMoves(m)}
    \cup WordMoves \cup {Pos(0, 0), Pos(MaxRow, 0)}

\* find, either way: a later match is at the end of the buffer at the latest,
\* and from below the buffer there is none.
Matches(m) ==
  {p \in [row : 0 .. MaxRow, col : 0 .. Width - 1] :
     m.cursor.row <= MaxRow /\ p.col < LengthOf(p.row) /\ p # m.cursor}

\* search, search_repeat: to a match, or nowhere.
Searched(m) == {m} \cup {MovedTo(m, p) : p \in Matches(m)}

\* The columns that are copied of a row, by its own length, and those that are
\* highlighted, by the columns w that the pane is drawn with.
First(m) == IF Before(m.cursor, m.anchor) THEN m.cursor ELSE m.anchor
Final(m) == IF Before(m.cursor, m.anchor) THEN m.anchor ELSE m.cursor
Block(m) == LowerOf(m.anchor.col, m.cursor.col) .. HigherOf(m.anchor.col, m.cursor.col)

SelectedText(m, r) ==
  IF m.anchor = NoAnchor \/ r \notin First(m).row .. Final(m).row THEN {}
  ELSE IF m.rectangle THEN {c \in Block(m) : c < LengthOf(r)}
  ELSE {c \in 0 .. LengthOf(r) - 1 :
          /\ r = First(m).row => c >= First(m).col
          /\ r = Final(m).row => c < Final(m).col}

\* Seeded fault: the cell under the cursor is highlighted as well.
SelectionSpanInclusive(m, r, w) ==
  IF m.anchor = NoAnchor THEN {}
  ELSE LET first == First(m)
           final == Final(m)
           from == IF m.rectangle THEN LowerOf(first.col, final.col) ELSE IF r = first.row THEN first.col ELSE 0
           to == IF m.rectangle THEN HigherOf(first.col, final.col) + 1
                 ELSE IF r = final.row THEN final.col + 1 ELSE w
       IN  IF r \in first.row .. final.row THEN from .. LowerOf(to, w) - 1 ELSE {}

SelectionSpan(m, r, w) ==
  IF m.anchor = NoAnchor THEN {}
  ELSE LET first == First(m)
           final == Final(m)
           from == IF m.rectangle THEN LowerOf(first.col, final.col) ELSE IF r = first.row THEN first.col ELSE 0
           to == IF m.rectangle THEN HigherOf(first.col, final.col) + 1
                 ELSE IF r = final.row THEN final.col ELSE w
       IN  IF r \in first.row .. final.row THEN from .. LowerOf(to, w) - 1 ELSE {}

-----------------------------------------------------------------------------
(* The pane                                                                *)

\* The history after n lines of length w have left the screen: the oldest of
\* too many are dropped.
HistoryAfter(n, w) ==
  LET dropped == Less(history + n, MaxHistory)
  IN  [i \in 1 .. LowerOf(history + n, MaxHistory) |->
         IF i + dropped <= history THEN historyCells[i + dropped] ELSE w]

\* Another history and size; copy mode is not told.
Becomes(h, l, w) ==
  /\ historyCells' = h /\ lines' = l /\ width' = w
  /\ shrunk' = (shrunk \/ (copying /\ Len(h) + l < Combined))
  /\ UNCHANGED <<onAlternate, focused, copy>>

Output == ~ onAlternate /\ Becomes(HistoryAfter(1, width), lines, width)
EraseHistory == Becomes(<< >>, lines, width)

\* The lines are resized before those above the new height leave the screen.
ResizePane(l, w) ==
  Becomes(IF onAlternate THEN historyCells ELSE HistoryAfter(Less(lines, l), w), l, w)

SwitchScreen ==
  /\ onAlternate' = ~ onAlternate
  /\ UNCHANGED <<buffer, focused, copy, shrunk>>

\* Another client moves the focus.
FocusMoves ==
  /\ focused' = ~ focused
  /\ UNCHANGED <<buffer, onAlternate, copy, shrunk>>

-----------------------------------------------------------------------------
(* The handlers                                                            *)

Leaves == copying' = FALSE /\ mode' = NoMode /\ shrunk' = FALSE

ExitCopyMode ==
  /\ Leaves /\ searching' = FALSE /\ mouseSel' = "none"

Stays(m) ==
  /\ copying' = TRUE /\ mode' = m
  /\ shrunk' = (shrunk /\ copying)

\* The client itself goes elsewhere: exit_copy_mode_if_focus_changes.
FocusLeaves ==
  /\ focused' = FALSE
  /\ IF copying THEN ExitCopyMode ELSE UNCHANGED <<copy, shrunk>>
  /\ UNCHANGED <<buffer, onAlternate>>

\* enter_copy_mode, by key or command; if it is on, it starts again.
EnterCopyMode ==
  /\ focused /\ ~ onAlternate
  /\ copying' = TRUE /\ mode' = Entered /\ shrunk' = FALSE
  /\ UNCHANGED <<pane, searching, mouseSel>>

\* What looks at the target first, and exits if it is not the active one.
OnTarget(result) ==
  /\ copying
  /\ IF TargetIsActive THEN \E m \in result : Stays(m) /\ UNCHANGED <<searching, mouseSel>>
     ELSE ExitCopyMode
  /\ UNCHANGED pane

CopyNavigate == OnTarget({MovedTo(mode, p) : p \in Moves(mode)})
SearchRepeat == OnTarget(Searched(mode))

CopyQuit ==
  /\ copying
  /\ Leaves /\ searching' = FALSE
  /\ mouseSel' = IF TargetIsActive THEN mouseSel ELSE "none"
  /\ UNCHANGED pane

\* These two look at no target.
CopyStartSelection ==
  /\ copying
  /\ \E m \in {StartSelection(mode), ToggleRectangle(mode)} : Stays(m)
  /\ UNCHANGED <<pane, searching, mouseSel>>

CopyYank ==
  /\ copying
  /\ IF TargetIsActive THEN Leaves /\ UNCHANGED <<searching, mouseSel>> ELSE ExitCopyMode
  /\ UNCHANGED pane

SearchOpen ==
  /\ copying /\ searching' = TRUE
  /\ UNCHANGED <<pane, copying, mode, mouseSel, shrunk>>

SearchCancel ==
  /\ searching /\ searching' = FALSE
  /\ UNCHANGED <<pane, copying, mode, mouseSel, shrunk>>

\* A search that is confirmed; an empty one only closes the input.
SearchConfirm ==
  /\ searching
  /\ \/ /\ searching' = FALSE
        /\ UNCHANGED <<copying, mode, mouseSel, shrunk>>
     \/ IF TargetIsActive
        THEN /\ searching' = FALSE /\ UNCHANGED mouseSel
             /\ \E m \in Searched(mode) : Stays(m)
        ELSE ExitCopyMode
  /\ UNCHANGED pane

\* render_client_frame drops a mode whose target is not active.
Render ==
  /\ copying /\ ~ TargetIsActive
  /\ ExitCopyMode
  /\ UNCHANGED pane

-----------------------------------------------------------------------------
(* The mouse.  The client acts on a frame of some age, in which the view   *)
(* may have begun at any row of the buffer.                                *)

\* A press on the pane, which becomes the active one.  It arms a selection if
\* the application has changed neither screen nor mouse reporting since.
MousePress ==
  /\ mouseSel' \in IF onAlternate THEN {"none"} ELSE {"none", "armed"}
  /\ focused' = TRUE
  /\ UNCHANGED <<buffer, onAlternate, copying, mode, searching, shrunk>>

PointToBuffer == [row : {t + r : t \in 0 .. MaxRow, r \in 0 .. MaxLines - 1}, col : 0 .. Width - 1]

\* mouse_sel_drag_target: the selection is given up if the pane is not on the
\* frame, or no longer as it was.  The first motion enters copy mode, if
\* need be, and selects from where the button was pressed.
MouseDrag ==
  /\ mouseSel # "none"
  /\ \/ mouseSel' = "none" /\ UNCHANGED <<copying, mode, shrunk>>
     \/ /\ ~ onAlternate /\ mouseSel = "armed" /\ focused
        /\ mouseSel' = "dragging"
        /\ \E origin, here \in PointToBuffer :
             Stays(SetCursor(StartSelection(SetCursor(IF copying THEN mode ELSE Entered, origin)), here))
     \/ /\ ~ onAlternate /\ mouseSel = "dragging" /\ UNCHANGED mouseSel
        /\ IF copying THEN \E here \in PointToBuffer : Stays(SetCursor(mode, here))
           ELSE UNCHANGED <<copying, mode, shrunk>>
  /\ UNCHANGED <<pane, searching>>

\* mouse_sel_finish and, after a click, cancel_mouse_gestures.
MouseRelease ==
  /\ mouseSel # "none" /\ mouseSel' = "none"
  /\ \/ mouseSel = "armed" /\ UNCHANGED <<copying, mode, searching, shrunk>>
     \/ /\ mouseSel = "dragging"
        /\ Leaves /\ searching' = (searching /\ TargetIsActive)
  /\ UNCHANGED pane

Step(m, up) ==
  MovedTo(m, Pos(IF up THEN Less(m.cursor.row, 1) ELSE LowerOf(m.cursor.row + 1, MaxRow),
                 m.cursor.col))

\* A notch of the wheel: three rows up or down, after entering copy mode if it
\* is not on.
MouseWheel ==
  /\ ~ onAlternate
  /\ copying => TargetIsActive
  /\ focused' = TRUE
  /\ IF copying THEN \E up \in BOOLEAN : Stays(Step(Step(Step(mode, up), up), up))
     ELSE Stays(Step(Step(Step(Entered, TRUE), TRUE), TRUE))
  /\ UNCHANGED <<buffer, onAlternate, searching, mouseSel>>

CopyNext ==
  \/ Output \/ EraseHistory \/ SwitchScreen \/ FocusMoves
  \/ \E l \in 1 .. MaxLines, w \in 1 .. Width : ResizePane(l, w)
  \/ FocusLeaves
  \/ EnterCopyMode \/ CopyNavigate \/ CopyQuit \/ CopyStartSelection \/ CopyYank
  \/ SearchOpen \/ SearchCancel \/ SearchConfirm \/ SearchRepeat
  \/ Render
  \/ MousePress \/ MouseDrag \/ MouseRelease \/ MouseWheel

CopySpec == CopyInit /\ [][CopyNext]_copyVars

-----------------------------------------------------------------------------
(* Properties                                                              *)

\* "Keep the cursor row within the visible window": whatever moved it, and
\* whatever the application printed meanwhile, the cursor is on a row that the
\* client sees.  This is so as long as the buffer has not lost lines and the
\* pane has the height it had when the mode was entered, as the mode is told
\* of neither (see README).
CursorInView ==
  copying /\ ~ shrunk /\ mode.height = lines =>
    /\ mode.cursor.row <= MaxRow
    /\ mode.cursor.row \in mode.top .. mode.top + lines - 1

\* The highlight shows what a yank copies, although the one is computed from
\* the columns the pane is drawn with and the other from the text of each row.
\* They are the same cells of a row as long as the pane is wide, as all are that
\* are on the screen.  A line of the history keeps its length: whichever of the
\* two is longer, they agree on the cells that the row has and the pane shows.
\* (Of a row that is longer than the pane, the yank has more; see README.)
HighlightIsYank ==
  copying => \A r \in 0 .. MaxRow, w \in 1 .. Width :
    /\ LengthOf(r) = w => SelectionSpan(mode, r, w) = SelectedText(mode, r)
    /\ {c \in SelectionSpan(mode, r, w) : c < LengthOf(r)} = {c \in SelectedText(mode, r) : c < w}
=============================================================================
