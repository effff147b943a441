----------------------------- MODULE MCFinTags -----------------------------
(***************************************************************************)
(* Rules whose first two tags are variable tags (a toplevel named tag,     *)
(* and an inner capture tag that may be NULL), followed by up to two tags *)
(* of every other kind that gen_fintags distinguishes: fictive, variable, *)
(* fixed toplevel, fixed inner (named, or a capture with two yypmatch     *)
(* elements), trailing variable and trailing fixed, on either base or on  *)
(* the cursor, with dist 0 and 2.  Old-style trailing context is the rule *)
(* with a single trailing tag.                                            *)
(***************************************************************************)
EXTENDS FinTags, FiniteSets

Uninit == 99    \* a final-tag variable the code has not written

Tag(fictive, capture, trailing, fixed, dist, base, toplevel, t, nsub) ==
  [fictive |-> fictive, capture |-> capture, name |-> t, lsub |-> 10 * t,
   hsub |-> 10 * t + 2 * (nsub - 1), trailing |-> trailing, fixed |-> fixed,
   dist |-> dist, base |-> base, toplevel |-> toplevel]

(* The kinds of extra tags, as functions of the tag's index.              *)
Dists == {0, 2}
Kinds ==
  {[k |-> "fictive", b |-> Rightmost, d |-> 0], [k |-> "var", b |-> Rightmost, d |-> 0],
   [k |-> "trailvar", b |-> Rightmost, d |-> 0]}
  \cup {[k |-> "fixtop", b |-> b, d |-> d] : b \in {1, Rightmost}, d \in Dists}
  \cup {[k |-> "fixinner", b |-> b, d |-> d] : b \in {1, 2, Rightmost}, d \in Dists}
  \cup {[k |-> "fixinnercap2", b |-> 2, d |-> d] : d \in Dists}
  \cup {[k |-> "trailfix", b |-> b, d |-> d] : b \in {1, Rightmost}, d \in Dists}

MkTag(kd, t) ==
  CASE kd.k = "fictive"      -> Tag(TRUE, FALSE, FALSE, FALSE, 0, Rightmost, FALSE, t, 1)
    [] kd.k = "var"          -> Tag(FALSE, FALSE, FALSE, FALSE, 0, Rightmost, FALSE, t, 1)
    [] kd.k = "trailvar"     -> Tag(FALSE, FALSE, TRUE, FALSE, 0, Rightmost, TRUE, t, 1)
    [] kd.k = "fixtop"       -> Tag(FALSE, FALSE, FALSE, TRUE, kd.d, kd.b, TRUE, t, 1)
    [] kd.k = "fixinner"     -> Tag(FALSE, FALSE, FALSE, TRUE, kd.d, kd.b, FALSE, t, 1)
    [] kd.k = "fixinnercap2" -> Tag(FALSE, TRUE, FALSE, TRUE, kd.d, kd.b, FALSE, t, 2)
    [] kd.k = "trailfix"     -> Tag(FALSE, FALSE, TRUE, TRUE, kd.d, kd.b, TRUE, t, 1)

Base1 == Tag(FALSE, FALSE, FALSE, FALSE, 0, Rightmost, TRUE, 1, 1)
Base2 == Tag(FALSE, TRUE, FALSE, FALSE, 0, Rightmost, FALSE, 2, 1)

Extras == {<<>>} \cup {<<a>> : a \in Kinds} \cup
          {<<a, b>> : a, b \in Kinds}

Trailing(kd) == kd.k \in {"trailvar", "trailfix"}

OneTrail(ex) == Cardinality({i \in DOMAIN ex : Trailing(ex[i])}) <= 1

MkRule(ex, ncap) ==
  [tags |-> <<Base1, Base2>> \o [i \in DOMAIN ex |-> MkTag(ex[i], i + 2)],
   fins |-> [t \in 1..(2 + Len(ex)) |-> t], ncap |-> ncap]

(* The variables on entry: the first base at 3, the second NULL or at 2,  *)
(* other versions at 1, YYCURSOR at 5, YYCTXMARKER at 4.                   *)
Entry(r, v2) ==
  LET n == Len(r.tags)
      fins == UNION {Range(ExpandFintags(r.tags[t])) : t \in 1..n}
  IN [x \in {Var(t, FALSE) : t \in 1..n} \cup fins
            \cup {CtxMarker, CursorExpr, <<"yynmatch">>} |->
        CASE x = Var(1, FALSE) -> 3
          [] x = Var(2, FALSE) -> v2
          [] x[1] = "s"        -> 1
          [] x = CursorExpr    -> 5
          [] x = CtxMarker     -> 4
          [] OTHER             -> Uninit]

JobsOf(generic, kinds) ==
  {[rule |-> MkRule(ex, ncap), generic |-> generic, oldstyle |-> FALSE,
    store |-> Entry(MkRule(ex, ncap), v2)]
   : ex \in {e \in Extras : OneTrail(e) /\ \A i \in DOMAIN e : e[i] \in kinds},
     ncap \in {0, 2}, v2 \in {Null, 2}}

(* Old-style trailing context: a rule with one trailing tag.              *)
OldStyleJobs(generic) ==
  LET r == [tags |-> <<Tag(FALSE, FALSE, TRUE, FALSE, 0, Rightmost, TRUE, 1, 1)>>,
            fins |-> <<1>>, ncap |-> 0]
  IN {[rule |-> r, generic |-> generic, oldstyle |-> TRUE, store |-> Entry(r, Null)]}

CJobs == JobsOf(FALSE, Kinds) \cup OldStyleJobs(FALSE)

GenericJobs ==
  JobsOf(TRUE, {kd \in Kinds : kd.k # "fixinnercap2"}) \cup OldStyleJobs(TRUE)

FinTagsJobs == CJobs \cup GenericJobs

GenericCaptureJobs == JobsOf(TRUE, {kd \in Kinds : kd.k = "fixinnercap2"})

=============================================================================
