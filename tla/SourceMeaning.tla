--------------------------- MODULE SourceMeaning ---------------------------
(***************************************************************************)
(* What a CJanus program computes, without compiler and runtime: the       *)
(* reference that Scopes is compared with.  A state has a store of         *)
(* numbered cells; an environment maps the variables in scope to cells, an *)
(* array to its first one.  Parameters are passed by reference, a callee   *)
(* sees its parameters and what its caller sees.  The branches of a par    *)
(* are taken one after the other: programs have no races.                  *)
(***************************************************************************)
EXTENDS Compiler, Expressions

RECURSIVE Meaning(_, _, _)
Meaning(store, env, e) ==
    CASE e.k = "num" -> e.n
      [] e.k = "ref" -> store[env[e.x.id[1]]]
      [] e.k = "at"  -> store[env[e.x.id[1]] + Meaning(store, env, e.i)]
      [] e.k = "bin" -> Apply(e.op, Meaning(store, env, e.l), Meaning(store, env, e.r))

Cell(store, env, target) ==
    env[target.x.id[1]] + IF target.k = "at" THEN Meaning(store, env, target.i) ELSE 0

RECURSIVE Does(_, _, _, _)

(* The store after the statements of a body.                               *)
Body(procs, store, env, body) ==
    LET after[n \in 0..Len(body)] == IF n = 0 THEN store ELSE Does(procs, after[n - 1], env, body[n])
    IN  after[Len(body)]

(* One cycle after the other, until the condition holds.                   *)
RECURSIVE Cycles(_, _, _, _)
Cycles(procs, store, env, s) ==
    LET once == Does(procs, store, env, s.do)
    IN  IF Meaning(once, env, s.d) # 0 THEN once
        ELSE Cycles(procs, Does(procs, once, env, s.loop), env, s)

Does(procs, store, env, s) ==
    CASE s.k = "skip"   -> store
      [] s.k = "assign" -> [store EXCEPT ![Cell(store, env, s.target)] =
                                Update(s.op, @, Meaning(store, env, s.e))]
      [] s.k = "sem"    -> [store EXCEPT ![env[s.x]] = Truth(s.op = "V")]
      [] s.k = "block"  -> Body(procs, store, env, s.body)
      [] s.k = "local"  -> Front(Body(procs, Append(store, Meaning(store, env, s.c)),
                                      (s.x :> Len(store) + 1) @@ env, s.body))
      [] s.k = "if"     -> Body(procs, store, env, IF Meaning(store, env, s.c) # 0
                                                   THEN s.then ELSE s.else)
      [] s.k = "from"   -> Cycles(procs, store, env, s)
      [] s.k = "par"    -> Body(procs, store, env, s.blocks)
      [] s.k = "call"   ->
            LET params == procs[s.proc].params
                passed == [x \in Range(params) |->
                              env[s.args[CHOOSE i \in DOMAIN params : params[i] = x]]]
            IN  Body(procs, store, passed @@ env, procs[s.proc].body)

(* The globals' cells when the program has ended, the first one first.     *)
Result(source) ==
    LET cells == [i \in DOMAIN source.globals |-> [n \in 1..source.globals[i].size |-> 0]]
        first(i) == Len(FlattenSeq(SubSeq(cells, 1, i - 1))) + 1
        env == [x \in {source.globals[i].name : i \in DOMAIN source.globals} |->
                   first(CHOOSE i \in DOMAIN source.globals : source.globals[i].name = x)]
    IN  Body(source.procs, FlattenSeq(cells), env, source.procs[1].body)

=============================================================================
