----------------------------- MODULE ModuleScan -----------------------------
(***************************************************************************)
(* The order in which pixelsToMsg of canvas.js walks the cells of one LED  *)
(* module: two nested loops that count up or down with the sign of the     *)
(* size, turning round at the end of every column (ZIGZAGV) or row         *)
(* (ZIGZAGH), from one of the four corners A (top left), B (top right),    *)
(* C (bottom left), D (bottom right).  The LEDs of the strip are wired in  *)
(* that order.                                                             *)
(*                                                                         *)
(* BorderPainter draws the same walk on the page for the user who sets the *)
(* module up: a circle on the first LED and the first three lines.         *)
(***************************************************************************)
EXTENDS Integers, Sequences

CONSTANTS
  Modules,            \* the modules of a template
  matrixW, matrixH    \* size of the canvas, in LEDs

ModuleDirection ==
  {"ZIGZAGV_CB", "ZIGZAGV_AD", "ZIGZAGV_BC", "ZIGZAGV_DA",
   "ZIGZAGH_CB", "ZIGZAGH_AD", "ZIGZAGH_BC", "ZIGZAGH_DA"}
Module == [x : Int, y : Int, w : Nat, h : Nat, d : ModuleDirection]

ASSUME ScanAssumption ==
  /\ Modules \subseteq Module
  /\ matrixW \in Nat \ {0} /\ matrixH \in Nat \ {0}

VARIABLES
  module,
  col, row,  \* the loop counters
  dir,       \* ZIGZAGH: this row runs from left to right in memory
  out        \* the cells visited: row i, column j, and what is sent for them

vars == <<module, col, row, dir, out>>

isVerticalDirection(m) ==
  m.d \in {"ZIGZAGV_CB", "ZIGZAGV_AD", "ZIGZAGV_BC", "ZIGZAGV_DA"}
FromLeft(m) == m.d \in {"ZIGZAGV_AD", "ZIGZAGH_AD", "ZIGZAGV_CB", "ZIGZAGH_CB"}
FromTop(m) == m.d \in {"ZIGZAGV_AD", "ZIGZAGH_AD", "ZIGZAGV_BC", "ZIGZAGH_BC"}

getPixelModule_noInset(m) ==
  [m EXCEPT !.x = IF FromLeft(m) THEN m.x ELSE m.x + m.w,
            !.w = IF FromLeft(m) THEN m.w ELSE -m.w,
            !.y = IF FromTop(m) THEN m.y ELSE m.y + m.h - 1,
            !.h = IF FromTop(m) THEN m.h ELSE -m.h]

(* The corner the walk starts from, with sizes that point away from it.    *)
getPixelModule(m) ==
  [m EXCEPT !.x = IF FromLeft(m) THEN m.x ELSE m.x + m.w - 1,
            !.w = IF FromLeft(m) THEN m.w ELSE -m.w,
            !.y = IF FromTop(m) THEN m.y ELSE m.y + m.h - 1,
            !.h = IF FromTop(m) THEN m.h ELSE -m.h]

p == getPixelModule(module)

Inside_inclusive(n, size) == IF size < 0 THEN n \geq size ELSE n \leq size
Inside(n, size) == IF size < 0 THEN n > size ELSE n < size
Step(n, size) == IF size < 0 THEN n - 1 ELSE n + 1
(* Position n counted from the other end of a line.                        *)
Back(start, size, n) == start + size - n + (IF size < 0 THEN 1 ELSE -1)

(* The pixel array has four bytes per cell of the canvas, row by row; a    *)
(* module may reach outside the canvas.                                    *)
Blank == -1
getMatrixIdx(i, j) == i * matrixW * 4 + j * 4
isInMatrix_byIndex(i, j) ==
  getMatrixIdx(i, j) \in 0..matrixW * matrixH * 4 - 1
isInMatrix(i, j) == ~(i < 0 \/ i \geq matrixH \/ j < 0 \/ j \geq matrixW)

Visit(i, j) ==
  [i |-> i, j |-> j,
   src |-> IF isInMatrix(i, j) THEN getMatrixIdx(i, j) ELSE Blank]

-----------------------------------------------------------------------------
Init ==
  /\ module \in Modules
  /\ col = 0 /\ row = 0 /\ dir = (p.w > 0)
  /\ out = <<>>

VisitV_noTurn ==
  /\ isVerticalDirection(module) /\ Inside(col, p.w) /\ Inside(row, p.h)
  /\ out' = Append(out, Visit(p.y + row, col + p.x))
  /\ row' = Step(row, p.h)
  /\ UNCHANGED <<module, col, dir>>

VisitV ==
  /\ isVerticalDirection(module) /\ Inside(col, p.w) /\ Inside(row, p.h)
  /\ LET i == IF col % 2 = 0 THEN p.y + row ELSE Back(p.y, p.h, row)
     IN  out' = Append(out, Visit(i, col + p.x))
  /\ row' = Step(row, p.h)
  /\ UNCHANGED <<module, col, dir>>

NextCol ==
  /\ isVerticalDirection(module) /\ Inside(col, p.w) /\ ~Inside(row, p.h)
  /\ col' = Step(col, p.w) /\ row' = 0
  /\ UNCHANGED <<module, dir, out>>

VisitH ==
  /\ ~isVerticalDirection(module) /\ Inside(row, p.h) /\ Inside(col, p.w)
  /\ LET j == IF dir THEN col + p.x ELSE Back(p.x, p.w, col)
     IN  out' = Append(out, Visit(row + p.y, j))
  /\ col' = Step(col, p.w)
  /\ UNCHANGED <<module, row, dir>>

NextRow_noTurn ==
  /\ ~isVerticalDirection(module) /\ Inside(row, p.h) /\ ~Inside(col, p.w)
  /\ row' = Step(row, p.h) /\ col' = 0
  /\ UNCHANGED <<module, dir, out>>

NextRow ==
  /\ ~isVerticalDirection(module) /\ Inside(row, p.h) /\ ~Inside(col, p.w)
  /\ row' = Step(row, p.h) /\ col' = 0 /\ dir' = ~dir
  /\ UNCHANGED <<module, out>>

Next == VisitV \/ NextCol \/ VisitH \/ NextRow

Spec == Init /\ [][Next]_vars

-----------------------------------------------------------------------------
Done == IF isVerticalDirection(module) THEN ~Inside(col, p.w)
        ELSE ~Inside(row, p.h)

(* The cells of the module as the user placed it on the canvas.            *)
Box == (module.y .. module.y + module.h - 1) \X
       (module.x .. module.x + module.w - 1)
Cell(n) == <<out[n].i, out[n].j>>

TypeOK ==
  /\ module \in Modules /\ dir \in BOOLEAN
  /\ col \in -module.w..module.w /\ row \in -module.h..module.h
  /\ out \in Seq([i : Int, j : Int, src : Nat \cup {Blank}])

(* No LED of the strip is fed from outside the module or from a cell that  *)
(* feeds another one, and at the end none is left out: the walk is a       *)
(* numbering of the cells of the module.                                   *)
EveryCellOnce ==
  /\ \A n \in 1..Len(out) : Cell(n) \in Box
  /\ \A n, q \in 1..Len(out) : n # q => Cell(n) # Cell(q)
  /\ Done => \A c \in Box : \E n \in 1..Len(out) : Cell(n) = c

(* Consecutive LEDs are neighbours on the canvas: the walk never jumps,    *)
(* whatever the corner, the direction and the parity of the size.          *)
Distance(c, e) ==
  LET Abs(n) == IF n < 0 THEN -n ELSE n
  IN  Abs(c[1] - e[1]) + Abs(c[2] - e[2])
StripIsContinuous ==
  \A n \in 1..Len(out) - 1 : Distance(Cell(n), Cell(n + 1)) = 1

(* Where a module reaches over the edge of the canvas the LEDs are dark;   *)
(* no pixel of the canvas is sent to two of them.                          *)
SourcesAreDistinct ==
  \A n, q \in 1..Len(out) :
    out[n].src = out[q].src /\ out[n].src # Blank => n = q

(* BorderPainter: the cell with the circle, and the corners of the line    *)
(* drawn through the first three columns or rows.                          *)
PreviewCorners ==
  LET m == module
      c == IF FromLeft(m) THEN m.x ELSE m.x + m.w - 1
      r == IF FromTop(m) THEN m.y ELSE m.y + m.h - 1
      dC == IF FromLeft(m) THEN 1 ELSE -1
      dR == IF FromTop(m) THEN 1 ELSE -1
      cEnd == c + dC * (m.w - 1)
      rEnd == r + dR * (m.h - 1)
  IN  IF isVerticalDirection(m)
      THEN << <<r, c>>, <<rEnd, c>>, <<rEnd, c + dC>>, <<r, c + dC>>,
              <<r, c + 2 * dC>>, <<rEnd, c + 2 * dC>> >>
      ELSE << <<r, c>>, <<r, cEnd>>, <<r + dR, cEnd>>, <<r + dR, c>>,
              <<r + 2 * dR, c>>, <<r + 2 * dR, cEnd>> >>

(* Rows that are drawn from the right are fed from the left.               *)
Fed(c) ==
  IF module.d \in {"ZIGZAGH_BC", "ZIGZAGH_DA"}
  THEN <<c[1], 2 * module.x + module.w - 1 - c[2]>> ELSE c

(* A strip laid along the line drawn on the page shows the image, for the  *)
(* columns of every corner and for rows that start on the left.  For rows  *)
(* that start on the right it shows the image mirrored: pixelsToMsg takes  *)
(* the first row's direction from a width that is negative by then.  The   *)
(* preview is true up to this mirror, which Fed has as the code makes it.  *)
PreviewUpToMirror ==
  LET line == IF isVerticalDirection(module) THEN module.h ELSE module.w
      turn == <<1, line, line + 1, 2 * line, 2 * line + 1, 3 * line>>
  IN  module.w \geq 3 /\ module.h \geq 3 =>
        \A n \in 1..6 :
          turn[n] \leq Len(out) => Cell(turn[n]) = Fed(PreviewCorners[n])
=============================================================================
