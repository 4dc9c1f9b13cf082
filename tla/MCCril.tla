------------------------------- MODULE MCCril -------------------------------
(***************************************************************************)
(* Small programs for CrilRuntime.  In each of them main calls the         *)
(* branches of a par, and these share variables.                           *)
(***************************************************************************)
EXTENDS CrilInvariant, TLC

CONSTANTS x, y, sem, main, f, g, h, none

I(op, d, e, k) == [op |-> op, dst |-> d, src |-> e, k |-> k, names |-> <<>>]

Skip         == I("skip", none, none, 0)
Call(ns)     == [Skip EXCEPT !.op = "call", !.names = ns]
Add(d, k)    == I("+=", d, none, k)
AddVar(d, e) == I("+=", d, e, 0)
Swap(d, e)   == I("<=>", d, e, 0)
Show(d)      == I("print", d, none, 0)
Acquire(d)   == I("V", d, none, 0)
Release(d)   == I("P", d, none, 0)

Names == {main, f, g, h}

\* x is updated under the lock sem by three processes, as in progs/sieve.cj,
\* and without it by a branch that swaps x and y and then calls two of them.
\* x is a global, so it lives in M[...]; y and sem are local.
WorkCode ==
    (main :> <<Skip, Add(x, 3), Call(<<f, g>>), Show(x)>>) @@
    (f    :> <<Acquire(sem), Add(x, 1), Release(sem)>>) @@
    (g    :> <<Swap(x, y), Call(<<f, h>>)>>) @@
    (h    :> <<Acquire(sem), AddVar(y, x), Release(sem)>>)

\* f only reads what g writes.
ReaderCode ==
    (main :> <<Skip, Call(<<f, g>>)>>) @@
    (f    :> <<AddVar(y, x), Skip>>) @@
    (g    :> <<Add(x, 1), Skip>>) @@
    (h    :> <<Skip>>)

=============================================================================
