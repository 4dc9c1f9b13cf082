---------------------------- MODULE Expressions ----------------------------
(***************************************************************************)
(* What the operators of expressions compute (src/runtime/expr.y and its   *)
(* parser expr.go), in the source as in the lines: integers as in Go,      *)
(* whose division truncates, and comparisons that yield 1 or 0.  Values    *)
(* stay far from the limits of an int; ^ is for numbers that are not       *)
(* negative.                                                               *)
(***************************************************************************)
EXTENDS Integers, Bitwise

Truth(b) == IF b THEN 1 ELSE 0

Size(a) == IF a < 0 THEN -a ELSE a

Quotient(a, b) == (IF (a < 0) = (b < 0) THEN 1 ELSE -1) * (Size(a) \div Size(b))

Apply(op, a, b) ==
    CASE op = "+"  -> a + b
      [] op = "-"  -> a - b
      [] op = "^"  -> a ^^ b
      [] op = "*"  -> a * b
      [] op = "/"  -> Quotient(a, b)
      [] op = "%"  -> a - b * Quotient(a, b)
      [] op = "<=" -> Truth(a <= b)
      [] op = "<"  -> Truth(a < b)
      [] op = ">=" -> Truth(a >= b)
      [] op = ">"  -> Truth(a > b)
      [] op = "="  -> Truth(a = b)
      [] op = "!=" -> Truth(a # b)
      [] op = "&&" -> Truth(a # 0 /\ b # 0)
      [] op = "||" -> Truth(a # 0 \/ b # 0)

(* The assignments x += e, x -= e and x ^= e, and how they are undone.     *)
Update(op, old, e) ==
    CASE op = "+=" -> old + e
      [] op = "-=" -> old - e
      [] op = "^=" -> old ^^ e

Opposite(op) == CASE op = "+=" -> "-=" [] op = "-=" -> "+=" [] op = "^=" -> "^="

=============================================================================
