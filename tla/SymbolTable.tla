---------------------------- MODULE SymbolTable -----------------------------
(***************************************************************************)
(* The symbol table of src/runtime/symtab.go: how a name that a line       *)
(* mentions becomes the address of a cell.  Each operator stands for the   *)
(* method of its name; t is the table, and `stack` the open blocks of the  *)
(* process that asks.                                                      *)
(*                                                                         *)
(* A key is a variable with a path, the string x:0.1:2 in the code.  A     *)
(* path is a sequence of numbers, each with the separator before it; cut   *)
(* drops the last of them.  Types are left out.                            *)
(***************************************************************************)
EXTENDS Integers, SequencesExt

Segment(numbers) ==
    IF numbers = <<>> THEN <<<<":", -1>>>>
    ELSE [i \in DOMAIN numbers |-> <<IF i = 1 THEN ":" ELSE ".", numbers[i]>>]

Path(stack) == FlattenSeq([i \in DOMAIN stack |-> Segment(stack[i])])

Key(id, path) == <<id, path>>

\* Mutant of Convert: the path of a parameter does not end with its procedure.
ConvertShort(name, stack) == Key(name.id, IF name.pre = "#" THEN <<>> ELSE Path(stack))

Convert(name, stack) ==
    Key(name.id, Path(IF name.pre = "#" THEN name.of ELSE stack \o name.of))

Cut(key, n) == Key(key[1], SubSeq(key[2], 1, n))

-----------------------------------------------------------------------------
(* Addresses: a cell of M, or of the memory for local variables.  Cell 0   *)
(* of the latter belongs to nobody: it is what an entry holds after unset. *)

Addr(heap, idx) == <<heap, idx>>
Local0 == Addr(FALSE, 0)

NewSymtab == [alloctable |-> <<>>, alclimit |-> 1]

Put(t, key, addr) == [t EXCEPT !.alloctable = (key :> addr) @@ @]

\* Mutant of AllocSym: the next variable gets the same cell.
AllocSymAgain(t, key) == Put(t, key, Addr(FALSE, t.alclimit))

AllocSym(t, key) ==
    [Put(t, key, Addr(FALSE, t.alclimit)) EXCEPT !.alclimit = @ + 1]

-----------------------------------------------------------------------------
(* GetAllocName: the first of the key and its cuts that is in the table.   *)
(* A name with $ is not cut; one with $ or # is allocated when absent.     *)

Cuts(name, key) == IF name.pre = "$" THEN {Len(key[2])} ELSE 0..Len(key[2])

Found(t, name, stack) ==
    LET key == Convert(name, stack)
    IN  {n \in Cuts(name, key) : Cut(key, n) \in DOMAIN t.alloctable}

Allocatable(name) == name.pre \in {"$", "#"}

Unknown(t, name, stack) == Found(t, name, stack) = {} /\ ~Allocatable(name)

(* The table after the lookup, and the address that it yields.             *)
Look(t, name, stack) ==
    IF Found(t, name, stack) = {} /\ Allocatable(name)
    THEN AllocSym(t, Convert(name, stack)) ELSE t

GetAddr(t, name, stack) ==
    LET found == Found(Look(t, name, stack), name, stack)
        nearest == CHOOSE n \in found : \A m \in found : m <= n
    IN  Look(t, name, stack).alloctable[Cut(Convert(name, stack), nearest)]

-----------------------------------------------------------------------------
(* set and unset.  An entry is free when its index is 0, wherever it is.   *)

SetFails(t, dst, stack) ==
    LET key == Convert(dst, stack)
    IN  key \in DOMAIN t.alloctable /\ t.alloctable[key][2] # 0

SetSym(t, dst, addr, stack) == Put(t, Convert(dst, stack), addr)

UnsetFails(t, dst, addr, stack) ==
    LET key == Convert(dst, stack)
    IN  key \notin DOMAIN t.alloctable \/ t.alloctable[key] # addr

UnsetSym(t, dst, stack) == Put(t, Convert(dst, stack), Local0)

=============================================================================
