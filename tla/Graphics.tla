------------------------------ MODULE Graphics ------------------------------
(***************************************************************************)
(* graphics.rs: the pixels that the drawing functions write.  A screen is  *)
(* a record [width, height, ppl], with ppl the pixels per scan line, which *)
(* may be more or less than the width.  A pixel is its distance from the   *)
(* start of the frame buffer.  A drawing function returns whether it is Ok *)
(* and the set of pixels it has written, checked or not.                   *)
(***************************************************************************)
EXTENDS Integers, FiniteSets

is_in_x_range(s, px) == 0 <= px /\ px < s.width /\ px < s.ppl

is_in_y_range(s, py) == 0 <= py /\ py < s.height

\* unchecked_pixel_at_mut, in pixels.
PixelAt(s, x, y) == y * s.ppl + x

\* Mutant: the far corner is not looked at.
fill_rect_checking_one_corner(s, px, py, w, h) ==
  IF is_in_x_range(s, px) /\ is_in_y_range(s, py)
  THEN [ok |-> TRUE,
        pixels |-> {PixelAt(s, p[1], p[2]) : p \in (px..(px + w - 1)) \X (py..(py + h - 1))}]
  ELSE [ok |-> FALSE, pixels |-> {}]

\* Two corners are checked, and the rectangle between them is written
\* without a check.
fill_rect(s, px, py, w, h) ==
  IF /\ is_in_x_range(s, px) /\ is_in_x_range(s, px + w - 1)
     /\ is_in_y_range(s, py) /\ is_in_y_range(s, py + h - 1)
  THEN [ok |-> TRUE,
        pixels |-> {PixelAt(s, p[1], p[2]) : p \in (px..(px + w - 1)) \X (py..(py + h - 1))}]
  ELSE [ok |-> FALSE, pixels |-> {}]

\* For 0 <= db <= da and ia in 0..da; the callers see to that.
calc_slope_point(da, db, ia) ==
  IF da = 0 THEN 0 ELSE ((2 * db * ia + da) \div da) \div 2

Abs(n) == IF n < 0 THEN -n ELSE n
Signum(n) == IF n < 0 THEN -1 ELSE IF n = 0 THEN 0 ELSE 1

\* The i-th point of draw_line, which moves along the longer side.
LinePoint(x0, y0, x1, y1, i) ==
  LET dx == Abs(x1 - x0)
      dy == Abs(y1 - y0)
      rx == IF dx >= dy THEN i ELSE calc_slope_point(dy, dx, i)
      ry == IF dx >= dy THEN calc_slope_point(dx, dy, i) ELSE i
  IN [x |-> x0 + rx * Signum(x1 - x0), y |-> y0 + ry * Signum(y1 - y0)]

\* draw_point is checked; the first one out of range ends draw_line.
draw_line(s, x0, y0, x1, y1) ==
  LET n == IF Abs(x1 - x0) >= Abs(y1 - y0) THEN Abs(x1 - x0) ELSE Abs(y1 - y0)
      Point(i) == LinePoint(x0, y0, x1, y1, i)
      InRange(p) == is_in_x_range(s, p.x) /\ is_in_y_range(s, p.y)
      drawn == {i \in 0..(n - 1) : \A j \in 0..i : InRange(Point(j))}
  IN IF InRange([x |-> x0, y |-> y0]) /\ InRange([x |-> x1, y |-> y1])
     THEN [ok |-> Cardinality(drawn) = n, pixels |-> {PixelAt(s, Point(i).x, Point(i).y) : i \in drawn}]
     ELSE [ok |-> FALSE, pixels |-> {}]

\* draw_str_fg: n glyphs of 8 by 16; each point is checked on its own.  Every
\* point is taken to be set.
draw_str_fg(s, x, y, n) ==
  {PixelAt(s, p[1], p[2]) :
     p \in {q \in (x..(x + 8 * n - 1)) \X (y..(y + 15)) :
              is_in_x_range(s, q[1]) /\ is_in_y_range(s, q[2])}}

\* init_display blackens the screen, and draw_test_pattern puts two columns of
\* four squares at the right, lines between the corners of a larger square
\* over them, and text below.  A rectangle that is not Ok is a panic, and
\* nothing is drawn after it; what draw_line returns is ignored.  The code's w
\* is 128.
init_display(s, w) ==
  LET h == w \div 2
      left == s.width - w - 1
      Square(k) == fill_rect(s, left + (k % 2) * h, (k \div 2) * h, h, h)
      rect == [k \in -1..7 |-> IF k = -1 THEN fill_rect(s, 0, 0, s.width, s.height) ELSE Square(k)]
      ok == \A k \in -1..7 : rect[k].ok
      corners == {0, w} \X {0, w}
      lines == UNION {draw_line(s, left + p[1], p[2], left + q[1], q[2]).pixels : p, q \in corners}
      after == lines
                 \union draw_str_fg(s, left, 4 * h, 10)
                 \union draw_str_fg(s, left, 4 * h + 16, 6)
      filled == UNION {rect[k].pixels : k \in {m \in -1..7 : \A j \in -1..m : rect[j].ok}}
  IN [ok |-> ok, pixels |-> filled \union (IF ok THEN after ELSE {})]
=============================================================================
