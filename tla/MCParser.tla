------------------------------ MODULE MCParser ------------------------------
(***************************************************************************)
(* Inputs of parse(): one name, x, for definitions; character sets over  *)
(* 1 .. 3.  Three families: every file name of up to two characters over *)
(* "a" and a backslash (and stdin), with and without -i, on a file of one  *)
(* rule; and files of one or two blocks of up to two items each, named    *)
(* "a", whose items cover every grammar action and every fatal error;     *)
(* and a rule of a range with each run of one to three postfix operators. *)
(***************************************************************************)
EXTENDS Parser

MCNames == {"x"}

NoLook == [t |-> "none"]   \* look: empty
R1 == [t |-> "range", cs |-> {1}]
R2 == [t |-> "range", cs |-> {2}]
X  == [t |-> "id", name |-> "x"]
Bin(op, l, r) == [t |-> op, l |-> l, r |-> r]
CloseT(e, ops) == [t |-> "close", e |-> e, ops |-> ops]
CSize(e, lo, hi) == [t |-> "csize", e |-> e, min |-> lo, max |-> hi]

Rule(re, look) == [kind |-> "rule", re |-> re, look |-> look]
Decl(id, re) == [kind |-> "decl", id |-> id, re |-> re]

Items ==
  {Rule(R1, NoLook), Rule(R1, R2), Rule(X, NoLook), Rule(CloseT(X, <<"+", "?">>), NoLook),
   Rule(CSize(R2, 1, 2), NoLook), Rule(Bin("diff", Bin("cat", R1, R2), R1), NoLook),
   Decl("x", Bin("alt", R1, Bin("diff", R2, R2))), Decl("x", X)}

BlocksOf == {<<>>} \cup {<<i>> : i \in Items} \cup {<<i, j>> : i, j \in Items}

CloseStrings == UNION {[1..n -> {"*", "+", "?"}] : n \in 1..3}

FileNames == {NoFile} \cup UNION {[1..n -> {"a", Backslash}] : n \in 0..2}

MCFiles ==
  {[name |-> n, iflag |-> i, blocks |-> <<<<Rule(R1, NoLook)>>>>] : n \in FileNames, i \in BOOLEAN}
  \cup {[name |-> <<"a">>, iflag |-> FALSE, blocks |-> bs]
        : bs \in {<<b>> : b \in BlocksOf} \cup {<<b, c>> : b, c \in BlocksOf}}
  \cup {[name |-> <<"a">>, iflag |-> FALSE, blocks |-> <<<<Rule(CloseT(R1, ops), NoLook)>>>>]
        : ops \in CloseStrings}

=============================================================================
