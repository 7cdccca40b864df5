--------------------------------- MODULE Geometry ---------------------------------
(***************************************************************************)
(* The geometry the game rests on, as operators: vectors, rectangles,      *)
(* lines, polygons and transformations of src/src/GameStructs.hpp and      *)
(* .cpp, the body of an object (Body.cpp) and how Grid finds the object    *)
(* at a point.  Coordinates are integers; floating point rounding is left  *)
(* out.                                                                    *)
(*                                                                         *)
(* A step takes one sample of arguments; the properties compare what the   *)
(* operators give for it with definitions that do not depend on them.      *)
(***************************************************************************)
EXTENDS Integers, Sequences

CONSTANTS Coords,    \* coordinates of corners and end points
          Sizes,     \* sides of rectangles
          Entries,   \* entries of a transformation
          Spots,     \* where in the grid objects are, vectors
          Clicks     \* where in the grid the mouse is, per axis

ASSUME GeometryAssumption ==
  /\ Coords \cup Entries \cup Clicks \subseteq Int /\ Sizes \subseteq Nat
  /\ Spots \subseteq [x : Int, y : Int]

-----------------------------------------------------------------------------
(* Vec2.                                                                    *)

V(a, b) == [x |-> a, y |-> b]
Plus(a, b) == V(a.x + b.x, a.y + b.y)
Minus(a, b) == V(a.x - b.x, a.y - b.y)
dot(a, b) == a.x * b.x + a.y * b.y
cross(a, b) == a.x * b.y - a.y * b.x

(* Turns by the angles of a right triangle with sides 3, 4 and 5: their     *)
(* sines and cosines are fifths, and so is what they give.                  *)
Turns == {[c |-> 5, s |-> 0], [c |-> 0, s |-> 5], [c |-> 3, s |-> 4], [c |-> -4, s |-> 3]}
Fifths(a) == V(5 * a.x, 5 * a.y)

Rot(p, pivot, t) ==
  V(t.c * (p.x - pivot.x) - t.s * (p.y - pivot.y) + 5 * pivot.x,
    t.s * (p.x - pivot.x) + t.c * (p.y - pivot.y) + 5 * pivot.y)

-----------------------------------------------------------------------------
(* Matrices, mat[row][column]; PT takes the column first.                   *)

PT(mat, x, y) == mat[y][x]
Matrix2(f(_, _)) == [y \in 0 .. 1 |-> [x \in 0 .. 1 |-> f(x, y)]]
Matrix(f(_, _)) == [y \in 0 .. 2 |-> [x \in 0 .. 2 |-> f(x, y)]]
Determinant2(a, b, c, d) == a * d - b * c

(* Altered form: neither sine is negative.                                  *)
SetRotationMatMirrored(t) == Matrix2(LAMBDA x, y : IF x = y THEN t.c ELSE t.s)
(* RotationHandler.                                                         *)
SetRotationMatTo(t) == Matrix2(LAMBDA x, y : IF x = y THEN t.c ELSE IF x = 1 THEN -t.s ELSE t.s)
Turned(mat, p) == V(PT(mat, 0, 0) * p.x + PT(mat, 1, 0) * p.y,
                    PT(mat, 0, 1) * p.x + PT(mat, 1, 1) * p.y)

(* Transformation_2D.                                                       *)
identity == Matrix(LAMBDA x, y : IF x = y THEN 1 ELSE 0)
applyTo(mat, p) == V(PT(mat, 0, 0) * p.x + PT(mat, 1, 0) * p.y + PT(mat, 2, 0),
                     PT(mat, 0, 1) * p.x + PT(mat, 1, 1) * p.y + PT(mat, 2, 1))
mul(mat, o) == Matrix(LAMBDA x, y : PT(mat, 0, y) * PT(o, x, 0) + PT(mat, 1, y) * PT(o, x, 1)
                                      + PT(mat, 2, y) * PT(o, x, 2))

getDeterminant_3D(m) ==
  PT(m, 0, 0) * PT(m, 1, 1) * PT(m, 2, 2) + PT(m, 1, 0) * PT(m, 2, 1) * PT(m, 0, 2)
  + PT(m, 2, 0) * PT(m, 0, 1) * PT(m, 1, 2) - PT(m, 2, 0) * PT(m, 1, 1) * PT(m, 0, 2)
  - PT(m, 1, 0) * PT(m, 0, 1) * PT(m, 2, 2) - PT(m, 0, 0) * PT(m, 2, 1) * PT(m, 1, 2)

(* getInverse: the matrix of the cofactors, and what it is divided by.      *)
Divisor(m) == IF getDeterminant_3D(m) = 0 THEN 1 ELSE getDeterminant_3D(m)

(* Altered form: the cofactors are not reflected.                           *)
CofactorsUnreflected(m) ==
  Matrix(LAMBDA x, y : Determinant2(PT(m, (x + 1) % 3, (y + 1) % 3), PT(m, (x + 2) % 3, (y + 1) % 3),
                                    PT(m, (x + 1) % 3, (y + 2) % 3), PT(m, (x + 2) % 3, (y + 2) % 3)))
Cofactors(m) ==
  Matrix(LAMBDA y, x : Determinant2(PT(m, (x + 1) % 3, (y + 1) % 3), PT(m, (x + 2) % 3, (y + 1) % 3),
                                    PT(m, (x + 1) % 3, (y + 2) % 3), PT(m, (x + 2) % 3, (y + 2) % 3)))

-----------------------------------------------------------------------------
(* Rectangle.                                                               *)

Rect(p, s) == [pos |-> p, size |-> s]
Lo(a, b) == IF a < b THEN a ELSE b
Hi(a, b) == IF a < b THEN b ELSE a

containsPoint(r, p) ==
  /\ r.pos.x <= p.x /\ p.x <= r.pos.x + r.size.x
  /\ r.pos.y <= p.y /\ p.y <= r.pos.y + r.size.y

(* Altered form: the offset is not part of the far corner.                  *)
overlapsHalfMoved(a, o, off) ==
  /\ a.pos.x + off.x < o.pos.x + o.size.x /\ o.pos.x < a.pos.x + a.size.x
  /\ a.pos.y + off.y < o.pos.y + o.size.y /\ o.pos.y < a.pos.y + a.size.y
overlaps(a, o, off) ==
  /\ a.pos.x + off.x < o.pos.x + o.size.x /\ o.pos.x < a.pos.x + off.x + a.size.x
  /\ a.pos.y + off.y < o.pos.y + o.size.y /\ o.pos.y < a.pos.y + off.y + a.size.y

(* Altered form: the size is the way from the first point to the second.    *)
MakeRectangleSigned(a, b) == Rect(V(Lo(a.x, b.x), Lo(a.y, b.y)), Minus(b, a))
MakeRectangle(a, b) ==
  LET nw == V(Lo(a.x, b.x), Lo(a.y, b.y))
  IN  Rect(nw, Minus(V(Hi(a.x, b.x), Hi(a.y, b.y)), nw))

-----------------------------------------------------------------------------
(* Lines.                                                                   *)

(* DoVecsIntersect: the ends of each line are not on one side of the other. *)
Side(p, a, b) == (b.y - a.y) * p.x + (a.x - b.x) * p.y + b.x * a.y - a.x * b.y
(* Altered form: an end that lies on the line is on a side.                 *)
OneSideTouching(d1, d2) == (d1 >= 0 /\ d2 >= 0) \/ (d1 <= 0 /\ d2 <= 0)
OneSide(d1, d2) == (d1 > 0 /\ d2 > 0) \/ (d1 < 0 /\ d2 < 0)
DoVecsIntersect(v1, e1, v2, e2) ==
  /\ ~OneSide(Side(v2, v1, e1), Side(e2, v1, e1))
  /\ ~OneSide(Side(v1, v2, e2), Side(e1, v2, e2))

-----------------------------------------------------------------------------
(* Bodies and where they are found.                                         *)

verticies == <<V(0, 5), V(5, -5), V(0, -2), V(-5, -5)>>

(* Whether the line from p to the left crosses the edge from a to b.        *)
Crosses(p, a, b) ==
  /\ (a.y > p.y) # (b.y > p.y)
  /\ LET d == b.y - a.y
         e == (p.x - a.x) * d - (b.x - a.x) * (p.y - a.y)
     IN  IF d > 0 THEN e < 0 ELSE e > 0

IsPointInPoly(v, p, mat) ==
  LET w == [i \in DOMAIN v |-> Turned(mat, v[i])]
      even[i \in 0 .. Len(v)] ==
        IF i = 0 THEN FALSE
        ELSE even[i - 1] # Crosses(p, IF i = 1 THEN w[Len(v)] ELSE w[i - 1], w[i])
  IN  even[Len(v)]

(* Body::recalAABB, by twice the centre and the square of its side, which   *)
(* is the larger by the root of two.  getAABB keeps it from the first time  *)
(* it is asked; nothing changes verticies after an object is made, so what  *)
(* it keeps is what it would find again.                                    *)
Least(s) == CHOOSE n \in s : \A m \in s : n <= m
Most(s) == CHOOSE n \in s : \A m \in s : m <= n
Xs(v) == {v[i].x : i \in DOMAIN v}
Ys(v) == {v[i].y : i \in DOMAIN v}
Span(s) == Most(s) - Least(s)

(* Altered form: the area is not made larger for a body that is turned.     *)
coverageTight(v) ==
  [centre2 |-> V(Least(Xs(v)) + Most(Xs(v)), Least(Ys(v)) + Most(Ys(v))),
   square |-> V(Span(Xs(v)) * Span(Xs(v)), Span(Ys(v)) * Span(Ys(v)))]
coverage(v) ==
  [centre2 |-> V(Least(Xs(v)) + Most(Xs(v)), Least(Ys(v)) + Most(Ys(v))),
   square |-> V(2 * Span(Xs(v)) * Span(Xs(v)), 2 * Span(Ys(v)) * Span(Ys(v)))]

(* containsPoint of it, for p in fifths.                                    *)
Square(n) == n * n
Covers(c, p) == /\ Square(2 * p.x - 5 * c.centre2.x) <= 25 * c.square.x
                /\ Square(2 * p.y - 5 * c.centre2.y) <= 25 * c.square.y

(* Grid::ObjectAt: the first object whose area, and then whose body, has    *)
(* the point; 0 when there is none.                                         *)
Hit(o, p) == LET ap == Fifths(Minus(p, o.position))
             IN  /\ Covers(coverage(verticies), ap)
                 /\ IsPointInPoly(verticies, ap, SetRotationMatTo(o.rotation))
(* Altered form: the end of the vector is taken for an object.              *)
ObjectAtEnd(g, p) == LET hits == {i \in DOMAIN g : Hit(g[i], p)} \cup {Len(g) + 1} IN Least(hits)
ObjectAt(g, p) == LET hits == {i \in DOMAIN g : Hit(g[i], p)}
                  IN  IF hits = {} THEN 0 ELSE Least(hits)

-----------------------------------------------------------------------------
(* The samples.                                                             *)

VARIABLE sample
geometryVars == <<sample>>

Points == {V(a, b) : a, b \in Coords}
Rects == {Rect(p, s) : p \in Points, s \in {V(a, b) : a, b \in Sizes}}

InitGeometry == sample = [of |-> "nothing"]

TakeRects ==
  \E a, o \in Rects, off \in Spots :
    a.pos = V(0, 0) /\ sample' = [of |-> "rects", a |-> a, o |-> o, off |-> off]

TakeLines ==
  \E a, b, c, d \in Points : sample' = [of |-> "lines", a |-> a, b |-> b, c |-> c, d |-> d]

TakeMatrix ==
  \E a, b, c, d, e, f \in Entries :
    sample' = [of |-> "matrix",
               m |-> [y \in 0 .. 2 |-> [x \in 0 .. 2 |->
                        <<<<a, b, c>>, <<d, e, f>>, <<0, 0, 1>>>>[y + 1][x + 1]]]]

TakeClick ==
  \E s \in Spots, t, u \in Turns, x, y \in Clicks :
    sample' = [of |-> "click", at |-> V(x, y),
               grid |-> <<[position |-> V(0, 0), rotation |-> t], [position |-> s, rotation |-> u]>>]

NextGeometry ==
  /\ sample.of = "nothing"
  /\ TakeRects \/ TakeLines \/ TakeMatrix \/ TakeClick

SpecGeometry == InitGeometry /\ [][NextGeometry]_geometryVars

-----------------------------------------------------------------------------
GeometryTypeOK ==
  /\ sample.of \in {"nothing", "rects", "lines", "matrix", "click"}
  /\ sample.of = "matrix" => getDeterminant_3D(sample.m) \in Int
  /\ sample.of = "click" => ObjectAt(sample.grid, sample.at) \in 0 .. Len(sample.grid)

(* Two rectangles overlap exactly when they still touch after either is     *)
(* moved by half a unit along any axis: edges and corners that only touch   *)
(* do not count, and a rectangle without area overlaps one that it lies     *)
(* within, although GameStructs.hpp:177 speaks of an overlap of area.       *)
Doubled(r) == Rect(Plus(r.pos, r.pos), Plus(r.size, r.size))
Touch(r, q) == \E x \in {r.pos.x, q.pos.x}, y \in {r.pos.y, q.pos.y} :
                 containsPoint(r, V(x, y)) /\ containsPoint(q, V(x, y))
OverlapIsArea ==
  sample.of = "rects" =>
    LET r == Doubled([sample.a EXCEPT !.pos = Plus(@, sample.off)])
        q == Doubled(sample.o)
    IN  overlaps(sample.a, sample.o, sample.off)
          <=> \A dx, dy \in {-1, 1} : Touch([r EXCEPT !.pos = Plus(@, V(dx, dy))], q)

(* Two lines that are not in one line intersect exactly when a point of     *)
(* one, found by solving for both parameters, is a point of the other.      *)
Between01(n, d) == (d > 0 /\ 0 <= n /\ n <= d) \/ (d < 0 /\ d <= n /\ n <= 0)
Meet(a, b, c, d) ==
  LET r == Minus(b, a)
      q == Minus(d, c)
  IN  Between01(cross(Minus(c, a), q), cross(r, q)) /\ Between01(cross(Minus(c, a), r), cross(r, q))
LinesMeet ==
  sample.of = "lines" /\ cross(Minus(sample.b, sample.a), Minus(sample.d, sample.c)) # 0 =>
    (DoVecsIntersect(sample.a, sample.b, sample.c, sample.d)
       <=> Meet(sample.a, sample.b, sample.c, sample.d))

(* The rectangle that two points mark contains both, and no other that      *)
(* contains both leaves a part of it out.                                   *)
RectangleSpans ==
  sample.of = "lines" =>
    LET r == MakeRectangle(sample.a, sample.b)
    IN  /\ containsPoint(r, sample.a) /\ containsPoint(r, sample.b)
        /\ \A q \in Rects :
             containsPoint(q, sample.a) /\ containsPoint(q, sample.b)
               => containsPoint(q, r.pos) /\ containsPoint(q, Plus(r.pos, r.size))

(* The two ways to turn a point, about a pivot and by the matrix of a body, *)
(* agree, and neither changes a distance or the side a point is on.         *)
TurnsKeepShape ==
  sample.of = "lines" =>
    \A t \in Turns :
      LET p == Rot(sample.a, sample.c, t)
          q == Rot(sample.b, sample.c, t)
          c == Fifths(sample.c)
      IN  /\ p = Plus(c, Turned(SetRotationMatTo(t), Minus(sample.a, sample.c)))
          /\ dot(Minus(p, q), Minus(p, q))
               = 25 * dot(Minus(sample.a, sample.b), Minus(sample.a, sample.b))
          /\ cross(Minus(p, c), Minus(q, c))
               = 25 * cross(Minus(sample.a, sample.c), Minus(sample.b, sample.c))

(* The inverse of a transformation takes every point back to where it came  *)
(* from, unless the transformation has none; its divisor is then 1.         *)
InverseUndoes ==
  sample.of = "matrix" =>
    LET back == mul(Cofactors(sample.m), sample.m)
    IN  IF getDeterminant_3D(sample.m) = 0 THEN Divisor(sample.m) = 1
        ELSE /\ back = Matrix(LAMBDA x, y : Divisor(sample.m) * PT(identity, x, y))
             /\ \A p \in Points : applyTo(Cofactors(sample.m), applyTo(sample.m, p))
                                    = V(Divisor(sample.m) * p.x, Divisor(sample.m) * p.y)

(* A click finds the first object whose body, as it is turned and drawn,    *)
(* has the point: the area that is looked at first never hides one, and the *)
(* ship is the two triangles left and right of its middle.                  *)
Corner(o, i) == Plus(Fifths(o.position), Turned(SetRotationMatTo(o.rotation), verticies[i]))
Inside(p, a, b, c) == LET s == {cross(Minus(b, a), Minus(p, a)), cross(Minus(c, b), Minus(p, b)),
                                cross(Minus(a, c), Minus(p, c))}
                      IN  (\A n \in s : n >= 0) \/ (\A n \in s : n <= 0)
InShip(o, p) == \/ Inside(p, Corner(o, 1), Corner(o, 2), Corner(o, 3))
                \/ Inside(p, Corner(o, 1), Corner(o, 3), Corner(o, 4))
OnEdge(o, p) == \E i \in 1 .. 4 : LET a == Corner(o, i)
                                      b == Corner(o, (i % 4) + 1)
                                  IN  cross(Minus(b, a), Minus(p, a)) = 0 /\ dot(Minus(a, p), Minus(b, p)) <= 0
ClickFinds ==
  sample.of = "click" /\ (\A i \in DOMAIN sample.grid : ~OnEdge(sample.grid[i], Fifths(sample.at))) =>
    LET ships == {i \in DOMAIN sample.grid : InShip(sample.grid[i], Fifths(sample.at))}
    IN  ObjectAt(sample.grid, sample.at) = IF ships = {} THEN 0 ELSE Least(ships)

(* Every answer of the library is that of its reference definition.         *)
GeometryAgrees ==
  /\ GeometryTypeOK /\ OverlapIsArea /\ LinesMeet /\ RectangleSpans
  /\ TurnsKeepShape /\ InverseUndoes /\ ClickFinds
=============================================================================
