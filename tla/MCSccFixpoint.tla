--------------------------- MODULE MCSccFixpoint ---------------------------
(***************************************************************************)
(* Programs for SccFixpoint: small sets of functions that perform effects  *)
(* and call one another, with the texts an edit may give each of them.     *)
(***************************************************************************)
EXTENDS EffectQueries, TLC

Labels == {"io", "st"}
Rows   == {Row(r) : r \in SUBSET Labels}

InputsFor(fns)  == {TextOf(f) : f \in fns} \cup {Shape}
DerivedFor(fns) == {Sig(f) : f \in fns} \cup {Bod(f) : f \in fns}

Two   == {"a", "b"}
One   == {"a"}

TwoInputs   == InputsFor(Two)
OneInput1   == InputsFor(One)
TwoDerived   == DerivedFor(Two)
OneDerived   == DerivedFor(One)
TwoSigs == {Sig(f) : f \in Two}
TwoBods == {Bod(f) : f \in Two}
OneSigs == {Sig("a")}
OneBods == {Bod("a")}

LowDur(inputs) == [i \in inputs |-> DUR_LOW]
TwoDur   == LowDur(TwoInputs)
OneDur   == LowDur(OneInput1)

OwnOf(f) == IF f = "a" THEN {"io"} ELSE {"st"}

\* Every function calls at most one function: the cycles are rings.
RingTexts(fns, f) ==
    {Fn(OwnOf(f), <<>>)} \cup {Fn(OwnOf(f), <<Sig(g)>>) : g \in fns}
TextsByName(fns, T(_)) ==
    [i \in InputsFor(fns) |-> IF i = Shape THEN {NoRow} ELSE T(i[2])]
RingsOf2 == TextsByName(Two, LAMBDA f : RingTexts(Two, f))
ValuesOf(texts) == Rows \cup UNION {texts[i] : i \in DOMAIN texts}
RingValues == ValuesOf(RingsOf2)

\* Edits open and close the rings a-a, a-b and b-b, so that they are entered by
\* bodies and by the walks of memos that had no cycle; b may also call itself
\* and then a, a cycle within a cycle.
EditTexts ==
    TextsByName(Two,
      LAMBDA f : RingTexts(Two, f) \cup
                 IF f = "b" THEN {Fn({"st"}, <<Sig("b"), Sig("a")>>)} ELSE {})
EditValues == ValuesOf(EditTexts)

\* a calls itself; an edit of its body adds an effect.
SelfTexts ==
    TextsByName(One, LAMBDA f : {Fn(r, <<Sig("a")>>) : r \in {{}, {"io"}}})
SelfValues == ValuesOf(SelfTexts)

\* The programs meet the hypothesis of the theorems of SccFixpointProofs.
ASSUME OnlyMembers == OnlyMembersRead
=============================================================================
