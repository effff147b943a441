---------------------------- MODULE MCDirectives ----------------------------
(***************************************************************************)
(* Programs of two blocks "a" and "b", each with a DFAS item, and one      *)
(* directive owned by "b" or none.  Three families:                       *)
(*  - CondPrograms: every list of at most two conditions x, y numbered 0  *)
(*    or 1 in each block, "b" with or without a cond_enum_prefix and with *)
(*    each dispatch form, and a types:re2c that is global, names both     *)
(*    blocks in reverse order, or names a missing block;                  *)
(*  - StatePrograms: each block a use block or not, with storable state   *)
(*    or not, "a" generating code or not, and no getstate:re2c, a global  *)
(*    one before or after the blocks, or one naming "a";                  *)
(*  - GatherPrograms: the tag and maximum directives over both blocks,    *)
(*    block "b" only, or a missing block.                                 *)
(***************************************************************************)
EXTENDS Directives

Blk(n) == [name |-> n, kind |-> "GLOBAL", conds |-> <<>>, prefix |-> "",
           stags |-> {}, mtags |-> {}, maxFill |-> 1, maxNmatch |-> 1,
           code |-> TRUE, fill |-> {}, storable |-> FALSE,
           computed |-> FALSE, nested |-> FALSE]

Dfas(b) == [block |-> b, kind |-> "DFAS", global |-> TRUE, names |-> <<>>, implicit |-> FALSE]
Dir(b, k, names) == [block |-> b, kind |-> k, global |-> names = <<>>, names |-> names,
                     implicit |-> FALSE]

Cond(n, k) == [name |-> n, number |-> k]
CondLists == {<<>>} \cup {<<Cond(n, k)>> : n \in {"x", "y"}, k \in 0..1}
             \cup {<<Cond("x", k), Cond("y", j)>> : k, j \in 0..1}
             \cup {<<Cond("y", k), Cond("x", j)>> : k, j \in 0..1}
Dispatches == {[computed |-> FALSE, nested |-> FALSE], [computed |-> TRUE, nested |-> FALSE],
               [computed |-> FALSE, nested |-> TRUE]}

\* gathered lists: all blocks, both in reverse order, a missing block
Lists == {<<>>, <<"b", "a">>, <<"z">>}

CondPrograms ==
  {[blocks |-> <<[Blk("a") EXCEPT !.conds = ca],
                 [Blk("b") EXCEPT !.conds = cb, !.prefix = p,
                                  !.computed = d.computed, !.nested = d.nested]>>,
    items |-> <<Dfas(1), Dfas(2), Dir(2, "COND_ENUM", l)>>] :
     ca \in CondLists, cb \in CondLists, p \in {"", "p"}, d \in Dispatches, l \in Lists}

StoreBlk(n, i, kind, st, code) ==
  [Blk(n) EXCEPT !.kind = kind, !.storable = st, !.fill = IF st THEN {i} ELSE {},
                 !.code = code]

\* where the getstate:re2c goes, if anywhere
Getstates ==
  {<<Dfas(1), Dfas(2)>>, <<Dir(1, "STATE_GOTO", <<>>), Dfas(1), Dfas(2)>>,
   <<Dfas(1), Dfas(2), Dir(2, "STATE_GOTO", <<>>)>>, <<Dfas(1), Dfas(2), Dir(2, "STATE_GOTO", <<"a">>)>>}

StatePrograms ==
  {[blocks |-> <<StoreBlk("a", 1, ka, sa, ca), StoreBlk("b", 2, kb, sb, TRUE)>>, items |-> is] :
     ka \in {"GLOBAL", "USE"}, kb \in {"GLOBAL", "USE"}, sa \in BOOLEAN, sb \in BOOLEAN,
     ca \in BOOLEAN, is \in Getstates}

GatherPrograms ==
  {[blocks |-> <<[Blk("a") EXCEPT !.stags = t, !.mtags = t, !.maxFill = m, !.maxNmatch = m],
                 [Blk("b") EXCEPT !.stags = {"t1", "t2"}, !.mtags = {"t2"}, !.maxFill = 2]>>,
    items |-> <<Dfas(1), Dfas(2), Dir(2, k, l)>>] :
     t \in {{}, {"t1"}}, m \in {1, 3}, k \in {"STAGS", "MTAGS", "MAXFILL", "MAXNMATCH"},
     l \in {<<>>, <<"b">>, <<"z">>}}

MCPrograms == CondPrograms \cup StatePrograms \cup GatherPrograms

=============================================================================
