------------------------------- MODULE MCTty -------------------------------
EXTENDS Tty
CONSTANTS y1, y2, r1, r2, one, two, a, lctrl, lalt, newline, backspace, d
MCTtyKey == (y1 :> one) @@ (y2 :> two)
MCTyped == [key : {newline, backspace, d, two}, down : {TRUE}]
             \cup [key : {lctrl, lalt}, down : {TRUE}]
MCTtyOf == (r1 :> y1) @@ (r2 :> y1)
Readers == Permutations({r1, r2})
=============================================================================
