------------------------------ MODULE MC_Labels ------------------------------
(***************************************************************************)
(* Instances of Labels for TLC: all files of two lines of a pool in which   *)
(* expressions, types and contexts meet, with and without local additions.  *)
(***************************************************************************)
EXTENDS Labels

Re(names, rest) == [names |-> names, rest |-> rest, compiles |-> TRUE, escaped |-> FALSE]
L(re, type, ctx) == [kind |-> "spec", regex |-> re, type |-> type, ctx |-> ctx]

All     == L(Re(<<"a">>, "any"), AnyType, "c1")
Exact   == L(Re(<<"a", "b">>, "end"), AnyType, "c2")
ExactF  == L(Re(<<"a", "b">>, "end"), "file", "c3")
UnderB  == L(Re(<<"a", "b">>, "any"), "dir", "c4")
Unknown == L(Re(<<"a", "b">>, "any"), "bad", "c5")
NoneB   == L(Re(<<"a", "b", "c">>, "end"), AnyType, NoLabel)
Below   == L(Re(<<"a">>, "below"), AnyType, "c6")
Broken  == L([Re(<<"a">>, "below") EXCEPT !.compiles = FALSE], AnyType, "c7")
Escaped == L([Re(<<"a", "b">>, "end") EXCEPT !.escaped = TRUE], AnyType, "c8")
Deep    == L(Re(<<"a", "b", "c">>, "any"), AnyType, "c9")
Root    == L(Re(<< >>, "any"), AnyType, "c10")
Comment == [kind |-> "skipped"]

Pool == {All, Exact, ExactF, UnderB, Unknown, NoneB, Below, Broken, Escaped,
         Deep, Root, Comment}

P(key, ctx) == [kind |-> "spec", regex |-> key, ctx |-> ctx]
PropertyPool == { P(<<"a">>, "p1"), P(<<"a", "b">>, "p2"), P(<<"a", "b">>, "p3"),
                  P(<<Star>>, "p4"), P(<<"b", "c">>, "p5"), Comment }

Disk(main, homedirs, local, property) ==
    [main |-> main, homedirs |-> homedirs, local |-> local, property |-> property]

MCDisks ==
    { Disk(m, a[1], a[2], Missing) : m \in BoundedSeq(Pool, 2) \cup {Missing},
        a \in { <<Missing, Missing>>, << <<ExactF>>, <<All>> >>, <<Missing, <<UnderB>> >> } }
    \cup { Disk(Missing, Missing, Missing, p) : p \in BoundedSeq(PropertyPool, 3) }

Option(backend, prefix, validating, baseonly) ==
    [backend |-> backend, prefix |-> prefix, validating |-> validating, baseonly |-> baseonly]

MCOptions ==
    { Option("file", << >>, FALSE, FALSE), Option("file", <<"b">>, TRUE, FALSE),
      Option("file", << >>, TRUE, TRUE), Option("property", << >>, FALSE, FALSE),
      Option("media", << >>, FALSE, FALSE) }

MCKeys == { <<"a">>, <<"a", "b">>, <<"a", Slash, "b">>, <<"a", "b", "c">>,
            <<"a", "b", "c", "d">>, <<"b">> }

MCAliases == { << >>, << <<"a", "b">> >>, << <<"a", "b", "c">>, <<"a", "d">> >> }
=============================================================================
